---------------------------- MODULE Spec2Model ----------------------------
(***************************************************************************)
(* State-machine model of the cdnscli terminal UI: the main bubbletea      *)
(* model (internal/ui/model.go), the popup editor (internal/ui/popup) and  *)
(* the deferred provider tasks the update function schedules.              *)
(*                                                                         *)
(* Go strings are sequences of one-character strings, so that typing,      *)
(* backspace, trimming, splitting, joining, case folding and the decimal   *)
(* conversions are computed and not assumed.                               *)
(***************************************************************************)
EXTENDS Integers, Sequences, FiniteSets, Bags, TLC

(***************************************************************************)
(* Strings                                                                 *)
(***************************************************************************)
DigitSeq == <<"0", "1", "2", "3", "4", "5", "6", "7", "8", "9">>
LowerSeq == <<"a", "b", "c", "d", "e", "f", "g", "h", "i", "j", "k", "l", "m",
              "n", "o", "p", "q", "r", "s", "t", "u", "v", "w", "x", "y", "z">>
UpperSeq == <<"A", "B", "C", "D", "E", "F", "G", "H", "I", "J", "K", "L", "M",
              "N", "O", "P", "Q", "R", "S", "T", "U", "V", "W", "X", "Y", "Z">>

Range(s) == {s[i] : i \in DOMAIN s}
IndexOf(seq, c) == CHOOSE i \in DOMAIN seq : seq[i] = c

IsDigit(c) == c \in Range(DigitSeq)
IsAlnum(c) == c \in Range(DigitSeq) \cup Range(LowerSeq) \cup Range(UpperSeq)
IsSpace(c) == c \in {" ", "\t", "\n", "\r"}

\* strings.ToLower / strings.ToUpper
LowerChar(c) == IF c \in Range(UpperSeq) THEN LowerSeq[IndexOf(UpperSeq, c)] ELSE c
UpperChar(c) == IF c \in Range(LowerSeq) THEN UpperSeq[IndexOf(LowerSeq, c)] ELSE c
ToLower(s) == [i \in DOMAIN s |-> LowerChar(s[i])]
ToUpper(s) == [i \in DOMAIN s |-> UpperChar(s[i])]

\* strings.TrimSpace
RECURSIVE TrimLeft(_)
TrimLeft(s) == IF s # <<>> /\ IsSpace(Head(s)) THEN TrimLeft(Tail(s)) ELSE s
RECURSIVE TrimRight(_)
TrimRight(s) ==
    IF s # <<>> /\ IsSpace(s[Len(s)]) THEN TrimRight(SubSeq(s, 1, Len(s) - 1)) ELSE s
TrimSpace(s) == TrimRight(TrimLeft(s))

\* strings.Split(s, sep) for a one-character separator: always at least one part
RECURSIVE SplitAcc(_, _, _)
SplitAcc(s, sep, cur) ==
    IF s = <<>> THEN <<cur>>
    ELSE IF Head(s) = sep THEN <<cur>> \o SplitAcc(Tail(s), sep, <<>>)
    ELSE SplitAcc(Tail(s), sep, Append(cur, Head(s)))
Split(s, sep) == SplitAcc(s, sep, <<>>)

\* strings.Join(list, ", ")
RECURSIVE Join(_)
Join(list) ==
    IF list = <<>> THEN <<>>
    ELSE IF Len(list) = 1 THEN list[1]
    ELSE list[1] \o <<",", " ">> \o Join(Tail(list))

\* strconv.Atoi with the error ignored: 0 on a syntax error
DigitVal(c) == IndexOf(DigitSeq, c) - 1
RECURSIVE DigitsValue(_, _)
DigitsValue(s, acc) ==
    IF s = <<>> THEN acc ELSE DigitsValue(Tail(s), acc * 10 + DigitVal(Head(s)))
AllDigits(s) == \A i \in DOMAIN s : IsDigit(s[i])
Atoi(s) ==
    IF s = <<>> THEN 0
    ELSE IF Head(s) \in {"+", "-"}
         THEN IF Tail(s) # <<>> /\ AllDigits(Tail(s))
              THEN (IF Head(s) = "-" THEN 0 - DigitsValue(Tail(s), 0)
                    ELSE DigitsValue(Tail(s), 0))
              ELSE 0
    ELSE IF AllDigits(s) THEN DigitsValue(s, 0) ELSE 0

\* strconv.Itoa
RECURSIVE ItoaNat(_)
ItoaNat(n) ==
    IF n < 10 THEN <<DigitSeq[n + 1]>>
    ELSE Append(ItoaNat(n \div 10), DigitSeq[(n % 10) + 1])
Itoa(n) == IF n < 0 THEN <<"-">> \o ItoaNat(0 - n) ELSE ItoaNat(n)

\* Filter of a sequence
RECURSIVE SelectNonEmpty(_)
SelectNonEmpty(list) ==
    IF list = <<>> THEN <<>>
    ELSE IF Head(list) # <<>> THEN <<Head(list)>> \o SelectNonEmpty(Tail(list))
    ELSE SelectNonEmpty(Tail(list))

TrimAll(list) == [i \in DOMAIN list |-> TrimSpace(list[i])]

\* Removal of element idx (1-based) from a sequence: append(l[:idx], l[idx+1:]...)
RemoveAt(list, idx) == SubSeq(list, 1, idx - 1) \o SubSeq(list, idx + 1, Len(list))

(***************************************************************************)
(* Validation (popup)                                                      *)
(***************************************************************************)
\* One hostname label: [a-z0-9](?:[a-z0-9-]{0,61}[a-z0-9])?  (case-insensitive)
IsLabel(l) ==
    /\ Len(l) >= 1
    /\ Len(l) <= 63
    /\ IsAlnum(l[1])
    /\ IsAlnum(l[Len(l)])
    /\ \A i \in DOMAIN l : IsAlnum(l[i]) \/ l[i] = "-"

isHostname(s) ==
    IF Len(s) = 0 \/ Len(s) > 253 THEN FALSE
    ELSE LET body == IF s[Len(s)] = "." THEN SubSeq(s, 1, Len(s) - 1) ELSE s
             labels == Split(body, ".")
         IN  \A i \in DOMAIN labels : IsLabel(labels[i])

isNumber(s) == AllDigits(s) /\ Len(s) > 0

\* A decimal octet of an IPv4 literal: 1..3 digits, no leading zero, <= 255
IsOctet(p) ==
    /\ Len(p) >= 1
    /\ Len(p) <= 3
    /\ AllDigits(p)
    /\ (Len(p) > 1 => p[1] # "0")
    /\ DigitsValue(p, 0) <= 255

\* net.ParseIP(s) != nil && ip.To4() != nil, for dotted-quad literals
isIPv4(s) ==
    LET parts == Split(s, ".")
    IN  Len(parts) = 4 /\ \A i \in DOMAIN parts : IsOctet(parts[i])

IsHexChar(c) == IsDigit(c) \/ LowerChar(c) \in {"a", "b", "c", "d", "e", "f"}
IsHexGroup(g) == Len(g) >= 1 /\ Len(g) <= 4 /\ \A i \in DOMAIN g : IsHexChar(g[i])

\* Positions i with s[i] = s[i+1] = ":"
DoubleColons(s) == {i \in 1..(Len(s) - 1) : s[i] = ":" /\ s[i + 1] = ":"}

\* The groups of one side of an IPv6 literal; a last part holding a dot is an
\* embedded IPv4 tail and stands for two 16-bit groups
SideGroups(t) == IF t = <<>> THEN <<>> ELSE Split(t, ":")
HasDot(g) == \E i \in DOMAIN g : g[i] = "."
GroupOK(g, last) == IF HasDot(g) THEN last /\ isIPv4(g) ELSE IsHexGroup(g)
GroupCount(gs) ==
    IF gs = <<>> THEN 0 ELSE Len(gs) + (IF HasDot(gs[Len(gs)]) THEN 1 ELSE 0)
IsZeroGroup(g) == \A i \in DOMAIN g : g[i] = "0"
IsFFFFGroup(g) == ToLower(g) = <<"f", "f", "f", "f">>

\* ip.To4() != nil for a parsed 16-byte address: ten zero bytes, then ff ff.
\* gs are the written groups, pad the number of zero groups "::" stands for,
\* at the position after the first nl groups.
IsV4Mapped(gs, nl, pad) ==
    LET full == SubSeq(gs, 1, nl) \o [i \in 1..pad |-> <<"0">>]
                \o SubSeq(gs, nl + 1, Len(gs))
    IN  /\ Len(full) >= 6
        /\ \A i \in 1..5 : IsZeroGroup(full[i])
        /\ IsFFFFGroup(full[6])

\* net.ParseIP(s) != nil && ip.To16() != nil && ip.To4() == nil
isIPv6(s) ==
    LET dc == DoubleColons(s)
    IN  IF dc = {}
        THEN LET gs == Split(s, ":")
             IN  /\ \A i \in DOMAIN gs : GroupOK(gs[i], i = Len(gs))
                 /\ GroupCount(gs) = 8
                 /\ ~IsV4Mapped(gs, 0, 0)
        ELSE IF Cardinality(dc) > 1 THEN FALSE
        ELSE LET i == CHOOSE j \in dc : TRUE
                 lg == SideGroups(SubSeq(s, 1, i - 1))
                 rg == SideGroups(SubSeq(s, i + 2, Len(s)))
                 cnt == Len(lg) + GroupCount(rg)
             IN  /\ \A j \in DOMAIN lg : GroupOK(lg[j], FALSE)
                 /\ \A j \in DOMAIN rg : GroupOK(rg[j], j = Len(rg))
                 /\ cnt <= 7
                 /\ ~IsV4Mapped(lg \o rg, Len(lg), 8 - cnt)

\* The validation with no rule for the content field
validateInput_NoContentRule(fieldName, value, rrType) ==
    IF fieldName = <<"t", "t", "l">>
    THEN (IF ~isNumber(value)
          THEN "TTL must be a number in seconds (e.g. 60, 300, 1800)" ELSE "")
    ELSE IF fieldName = <<"n", "a", "m", "e">>
    THEN (IF ~isHostname(value) THEN "Name must be a valid hostname" ELSE "")
    ELSE ""

validateInput(fieldName, value, rrType) ==
    IF fieldName = <<"t", "t", "l">>
    THEN (IF ~isNumber(value)
          THEN "TTL must be a number in seconds (e.g. 60, 300, 1800)" ELSE "")
    ELSE IF fieldName = <<"n", "a", "m", "e">>
    THEN (IF ~isHostname(value) THEN "Name must be a valid hostname" ELSE "")
    ELSE IF fieldName = <<"c", "o", "n", "t", "e", "n", "t">>
    THEN (LET t == ToUpper(rrType)
          IN  IF t = <<"A">>
              THEN (IF ~isIPv4(value)
                    THEN "Content must be a valid IPv4 address for A record" ELSE "")
              ELSE IF t = <<"A", "A", "A", "A">>
              THEN (IF ~isIPv6(value)
                    THEN "Content must be a valid IPv6 address for AAAA record" ELSE "")
              ELSE IF t \in {<<"C", "N", "A", "M", "E">>, <<"N", "S">>, <<"M", "X">>}
              THEN (IF ~isHostname(value) THEN "Content must be a valid hostname" ELSE "")
              ELSE "")
    ELSE ""

(***************************************************************************)
(* Popup editor (package popup)                                            *)
(***************************************************************************)
supportedTypes == << <<"A">>, <<"A", "A", "A", "A">>, <<"C", "N", "A", "M", "E">>,
                     <<"T", "X", "T">>, <<"M", "X">>, <<"N", "S">>,
                     <<"S", "R", "V">>, <<"C", "A", "A">> >>

strTrue == <<"t", "r", "u", "e">>
strFalse == <<"f", "a", "l", "s", "e">>

RecordColumns == << <<"N", "a", "m", "e">>, <<"T", "T", "L">>, <<"T", "y", "p", "e">>,
                    <<"P", "r", "o", "x", "i", "e", "d">>,
                    <<"C", "o", "n", "t", "e", "n", "t">> >>

\* Key names follow tea.KeyMsg.String(); a key that is not named here is a
\* single typed character (tea.KeyRunes).
NamedKeys == {"up", "down", "left", "right", "enter", "esc", "tab", "shift+tab",
              "backspace", "ctrl+h", "delete", "ctrl+s", "ctrl+d", "ctrl+c", "space"}
IsRunes(k) == k \notin NamedKeys

KeyMsg(k) == [type |-> "KeyMsg", key |-> k]
NoCmd == [type |-> "none"]

\* The popup pointer of the main model before any popup was created
NilPopup == [Mode |-> "nil", IsActive |-> FALSE]

\* popup.New
New(columnNames, fields, title) ==
    [Mode |-> "", ColumnNames |-> columnNames, Fields |-> fields, Cursor |-> 0,
     CharPos |-> 0, IsActive |-> TRUE, Title |-> title,
     inBoolSelect |-> FALSE, boolIndex |-> 0,
     inTextEdit |-> FALSE, textBuf |-> <<>>, textErr |-> "",
     inTypeSelect |-> FALSE, typeIndex |-> 0,
     ListValues |-> <<>>, ListCursor |-> 0, ConfirmIndex |-> 0]

RECURSIVE PadTo2(_)
PadTo2(vals) == IF Len(vals) < 2 THEN PadTo2(Append(vals, <<>>)) ELSE vals

\* popup.NewNameServersEditor
NewNameServersEditor(initial, title) ==
    [Mode |-> "nslist", ColumnNames |-> <<>>, Fields |-> <<>>, Cursor |-> 0,
     CharPos |-> 0, IsActive |-> TRUE, Title |-> title,
     inBoolSelect |-> FALSE, boolIndex |-> 0,
     inTextEdit |-> FALSE, textBuf |-> <<>>, textErr |-> "",
     inTypeSelect |-> FALSE, typeIndex |-> 0,
     ListValues |-> PadTo2(initial), ListCursor |-> 0, ConfirmIndex |-> 0]

\* popup.NewConfirmDialog
NewConfirmDialog(title) ==
    [Mode |-> "confirm", ColumnNames |-> <<>>, Fields |-> <<>>, Cursor |-> 0,
     CharPos |-> 0, IsActive |-> TRUE, Title |-> title,
     inBoolSelect |-> FALSE, boolIndex |-> 0,
     inTextEdit |-> FALSE, textBuf |-> <<>>, textErr |-> "",
     inTypeSelect |-> FALSE, typeIndex |-> 0,
     ListValues |-> <<>>, ListCursor |-> 0, ConfirmIndex |-> 0]

\* Go indexes from 0: field i of the popup is Fields[i + 1]
isBoolField(m, i) ==
    IF i < 0 \/ i >= Len(m.ColumnNames) THEN FALSE
    ELSE ToLower(m.ColumnNames[i + 1]) \in
            {<<"p", "r", "o", "x", "i", "e", "d">>, <<"e", "n", "a", "b", "l", "e", "d">>,
             <<"a", "c", "t", "i", "v", "e">>}

isTypeField(m, i) ==
    IF i < 0 \/ i >= Len(m.ColumnNames) THEN FALSE
    ELSE ToLower(m.ColumnNames[i + 1]) = <<"t", "y", "p", "e">>

currentType(m) ==
    LET hits == {idx \in 1..Len(m.ColumnNames) :
                    ToLower(m.ColumnNames[idx]) = <<"t", "y", "p", "e">> /\ idx <= Len(m.Fields)}
    IN  IF hits = {} THEN <<>>
        ELSE m.Fields[CHOOSE idx \in hits : \A j \in hits : idx <= j]

DropLast(buf) == IF Len(buf) > 0 THEN SubSeq(buf, 1, Len(buf) - 1) ELSE buf

\* The line deletion that leaves the cursor where it was
DeleteLine_KeepsCursor(m) ==
    [m EXCEPT !.ListValues = PadTo2(RemoveAt(m.ListValues, m.ListCursor + 1))]

\* The line deletion shared by the empty-value commit and Ctrl+D
DeleteLine(m) ==
    LET idx == m.ListCursor
        vals == RemoveAt(m.ListValues, idx + 1)
        cur == IF m.ListCursor >= Len(vals) /\ m.ListCursor > 0
               THEN m.ListCursor - 1 ELSE m.ListCursor
    IN  [m EXCEPT !.ListValues = PadTo2(vals), !.ListCursor = cur]

Ret(m, cmd) == [m |-> m, cmd |-> cmd]

\* The nested text editor whose Enter on an empty value never deletes the line
UpdateNSText_NoDelete(m, k) ==
    IF k = "enter"
    THEN LET value == TrimSpace(m.textBuf)
         IN  IF value # <<>> /\ ~isHostname(value)
             THEN Ret([m EXCEPT !.textErr = "Name server must be a valid hostname"], NoCmd)
             ELSE LET m1 == [m EXCEPT !.ListValues[m.ListCursor + 1] = value]
                  IN  Ret([m1 EXCEPT !.inTextEdit = FALSE, !.textBuf = <<>>,
                                     !.textErr = ""], NoCmd)
    ELSE IF k = "esc"
    THEN Ret([m EXCEPT !.inTextEdit = FALSE, !.textBuf = <<>>, !.textErr = ""], NoCmd)
    ELSE IF k \in {"backspace", "ctrl+h"}
    THEN Ret([m EXCEPT !.textBuf = DropLast(m.textBuf)], NoCmd)
    ELSE IF IsRunes(k)
    THEN Ret([m EXCEPT !.textBuf = Append(m.textBuf, k)], NoCmd)
    ELSE Ret(m, NoCmd)

\* Update, nameserver list, nested text editor open
UpdateNSText(m, k) ==
    IF k = "enter"
    THEN LET value == TrimSpace(m.textBuf)
         IN  IF value # <<>> /\ ~isHostname(value)
             THEN Ret([m EXCEPT !.textErr = "Name server must be a valid hostname"], NoCmd)
             ELSE LET m1 == IF value = <<>> /\ Len(m.ListValues) > 2
                            THEN DeleteLine(m)
                            ELSE [m EXCEPT !.ListValues[m.ListCursor + 1] = value]
                  IN  Ret([m1 EXCEPT !.inTextEdit = FALSE, !.textBuf = <<>>,
                                     !.textErr = ""], NoCmd)
    ELSE IF k = "esc"
    THEN Ret([m EXCEPT !.inTextEdit = FALSE, !.textBuf = <<>>, !.textErr = ""], NoCmd)
    ELSE IF k \in {"backspace", "ctrl+h"}
    THEN Ret([m EXCEPT !.textBuf = DropLast(m.textBuf)], NoCmd)
    ELSE IF IsRunes(k)
    THEN Ret([m EXCEPT !.textBuf = Append(m.textBuf, k)], NoCmd)
    ELSE Ret(m, NoCmd)

\* The nameserver list whose Esc sends the save message
UpdateNSList_EscSaves(m, k) ==
    IF k = "up"
    THEN Ret(IF m.ListCursor > 0 THEN [m EXCEPT !.ListCursor = m.ListCursor - 1] ELSE m,
             NoCmd)
    ELSE IF k = "down"
    THEN (IF m.ListCursor = Len(m.ListValues) - 1
          THEN (IF Len(m.ListValues) < 4
                THEN Ret([m EXCEPT !.ListValues = Append(m.ListValues, <<>>),
                                   !.ListCursor = m.ListCursor + 1], NoCmd)
                ELSE Ret(m, NoCmd))
          ELSE Ret([m EXCEPT !.ListCursor = m.ListCursor + 1], NoCmd))
    ELSE IF k = "enter"
    THEN Ret([m EXCEPT !.inTextEdit = TRUE, !.textBuf = m.ListValues[m.ListCursor + 1],
                       !.textErr = ""], NoCmd)
    ELSE IF k = "ctrl+d"
    THEN Ret(IF Len(m.ListValues) > 2 THEN DeleteLine(m) ELSE m, NoCmd)
    ELSE IF k = "ctrl+s"
    THEN Ret([m EXCEPT !.IsActive = FALSE],
             [type |-> "SaveNameServersMsg",
              Servers |-> SelectNonEmpty(TrimAll(m.ListValues))])
    ELSE IF k = "esc"
    THEN Ret([m EXCEPT !.IsActive = FALSE],
             [type |-> "SaveNameServersMsg",
              Servers |-> SelectNonEmpty(TrimAll(m.ListValues))])
    ELSE Ret(m, NoCmd)

\* Update, nameserver list, base navigation and commands
UpdateNSList(m, k) ==
    IF k = "up"
    THEN Ret(IF m.ListCursor > 0 THEN [m EXCEPT !.ListCursor = m.ListCursor - 1] ELSE m,
             NoCmd)
    ELSE IF k = "down"
    THEN (IF m.ListCursor = Len(m.ListValues) - 1
          THEN (IF Len(m.ListValues) < 4
                THEN Ret([m EXCEPT !.ListValues = Append(m.ListValues, <<>>),
                                   !.ListCursor = m.ListCursor + 1], NoCmd)
                ELSE Ret(m, NoCmd))
          ELSE Ret([m EXCEPT !.ListCursor = m.ListCursor + 1], NoCmd))
    ELSE IF k = "enter"
    THEN Ret([m EXCEPT !.inTextEdit = TRUE, !.textBuf = m.ListValues[m.ListCursor + 1],
                       !.textErr = ""], NoCmd)
    ELSE IF k = "ctrl+d"
    THEN Ret(IF Len(m.ListValues) > 2 THEN DeleteLine(m) ELSE m, NoCmd)
    ELSE IF k = "ctrl+s"
    THEN Ret([m EXCEPT !.IsActive = FALSE],
             [type |-> "SaveNameServersMsg",
              Servers |-> SelectNonEmpty(TrimAll(m.ListValues))])
    ELSE IF k = "esc"
    THEN Ret([m EXCEPT !.IsActive = FALSE], [type |-> "CancelMsg"])
    ELSE Ret(m, NoCmd)

\* Update, confirm dialog
UpdateConfirm(m, k) ==
    IF k \in {"left", "up"}
    THEN Ret(IF m.ConfirmIndex > 0 THEN [m EXCEPT !.ConfirmIndex = 0] ELSE m, NoCmd)
    ELSE IF k \in {"right", "down"}
    THEN Ret(IF m.ConfirmIndex < 1 THEN [m EXCEPT !.ConfirmIndex = 1] ELSE m, NoCmd)
    ELSE IF k = "enter"
    THEN (IF m.ConfirmIndex = 0
          THEN Ret([m EXCEPT !.IsActive = FALSE], [type |-> "ConfirmDeleteMsg"])
          ELSE Ret([m EXCEPT !.IsActive = FALSE], [type |-> "CancelMsg"]))
    ELSE IF k = "esc"
    THEN Ret([m EXCEPT !.IsActive = FALSE], [type |-> "CancelMsg"])
    ELSE Ret(m, NoCmd)

\* Update, field-form, text-edit sub-editor
UpdateTextEdit(m, k) ==
    IF k = "enter"
    THEN LET fieldName == ToLower(m.ColumnNames[m.Cursor + 1])
             rrType == ToUpper(currentType(m))
             errText == validateInput(fieldName, m.textBuf, rrType)
         IN  IF errText # ""
             THEN Ret([m EXCEPT !.textErr = errText], NoCmd)
             ELSE Ret([m EXCEPT !.Fields[m.Cursor + 1] = m.textBuf, !.inTextEdit = FALSE,
                                !.textBuf = <<>>, !.textErr = "",
                                !.CharPos = Len(m.textBuf)], NoCmd)
    ELSE IF k = "esc"
    THEN Ret([m EXCEPT !.inTextEdit = FALSE, !.textBuf = <<>>, !.textErr = ""], NoCmd)
    ELSE IF k \in {"backspace", "ctrl+h"}
    THEN Ret([m EXCEPT !.textBuf = DropLast(m.textBuf)], NoCmd)
    ELSE IF IsRunes(k)
    THEN Ret([m EXCEPT !.textBuf = Append(m.textBuf, k)], NoCmd)
    ELSE Ret(m, NoCmd)

\* Update, field-form, type-select sub-editor
UpdateTypeSelect(m, k) ==
    IF k = "up"
    THEN Ret(IF m.typeIndex > 0 THEN [m EXCEPT !.typeIndex = m.typeIndex - 1] ELSE m, NoCmd)
    ELSE IF k = "down"
    THEN Ret(IF m.typeIndex < Len(supportedTypes) - 1
             THEN [m EXCEPT !.typeIndex = m.typeIndex + 1] ELSE m, NoCmd)
    ELSE IF k = "enter"
    THEN Ret([m EXCEPT !.Fields[m.Cursor + 1] = supportedTypes[m.typeIndex + 1],
                       !.inTypeSelect = FALSE,
                       !.CharPos = Len(supportedTypes[m.typeIndex + 1])], NoCmd)
    ELSE IF k = "esc"
    THEN Ret([m EXCEPT !.inTypeSelect = FALSE], NoCmd)
    ELSE Ret(m, NoCmd)

\* The bool selector where only Left selects index 0
UpdateBoolSelect_UpIgnored(m, k) ==
    IF k = "left"
    THEN Ret(IF m.boolIndex > 0 THEN [m EXCEPT !.boolIndex = 0] ELSE m, NoCmd)
    ELSE IF k \in {"right", "down"}
    THEN Ret(IF m.boolIndex < 1 THEN [m EXCEPT !.boolIndex = 1] ELSE m, NoCmd)
    ELSE IF k = "enter"
    THEN LET v == IF m.boolIndex = 0 THEN strTrue ELSE strFalse
         IN  Ret([m EXCEPT !.Fields[m.Cursor + 1] = v, !.inBoolSelect = FALSE,
                           !.CharPos = Len(v)], NoCmd)
    ELSE IF k = "esc"
    THEN Ret([m EXCEPT !.inBoolSelect = FALSE], NoCmd)
    ELSE Ret(m, NoCmd)

\* Update, field-form, bool-select sub-editor
UpdateBoolSelect(m, k) ==
    IF k \in {"left", "up"}
    THEN Ret(IF m.boolIndex > 0 THEN [m EXCEPT !.boolIndex = 0] ELSE m, NoCmd)
    ELSE IF k \in {"right", "down"}
    THEN Ret(IF m.boolIndex < 1 THEN [m EXCEPT !.boolIndex = 1] ELSE m, NoCmd)
    ELSE IF k = "enter"
    THEN LET v == IF m.boolIndex = 0 THEN strTrue ELSE strFalse
         IN  Ret([m EXCEPT !.Fields[m.Cursor + 1] = v, !.inBoolSelect = FALSE,
                           !.CharPos = Len(v)], NoCmd)
    ELSE IF k = "esc"
    THEN Ret([m EXCEPT !.inBoolSelect = FALSE], NoCmd)
    ELSE Ret(m, NoCmd)

\* The index the type selector starts at: the first supported type equal to
\* the upper-cased field, 0 when there is none
InitialTypeIndex(cur) ==
    LET hits == {i \in 1..Len(supportedTypes) : supportedTypes[i] = cur}
    IN  IF hits = {} THEN 0 ELSE (CHOOSE i \in hits : \A j \in hits : i <= j) - 1

\* The field form whose Tab and Down do not wrap at the last field
UpdateForm_NoWrap(m, k) ==
    IF k \in {"tab", "down"}
    THEN LET c == IF m.Cursor + 1 < Len(m.Fields) THEN m.Cursor + 1 ELSE m.Cursor
         IN  Ret([m EXCEPT !.Cursor = c, !.CharPos = Len(m.Fields[c + 1])], NoCmd)
    ELSE IF k \in {"shift+tab", "up"}
    THEN LET c == (m.Cursor - 1 + Len(m.Fields)) % Len(m.Fields)
         IN  Ret([m EXCEPT !.Cursor = c, !.CharPos = Len(m.Fields[c + 1])], NoCmd)
    ELSE IF k = "left"
    THEN Ret(IF m.CharPos > 0 THEN [m EXCEPT !.CharPos = m.CharPos - 1] ELSE m, NoCmd)
    ELSE IF k = "right"
    THEN Ret(IF m.CharPos < Len(m.Fields[m.Cursor + 1])
             THEN [m EXCEPT !.CharPos = m.CharPos + 1] ELSE m, NoCmd)
    ELSE IF k = "enter"
    THEN (IF isBoolField(m, m.Cursor)
          THEN Ret([m EXCEPT !.inBoolSelect = TRUE,
                             !.boolIndex = IF ToLower(m.Fields[m.Cursor + 1]) = strTrue
                                           THEN 0 ELSE 1], NoCmd)
          ELSE IF isTypeField(m, m.Cursor)
          THEN Ret([m EXCEPT !.inTypeSelect = TRUE,
                             !.typeIndex = InitialTypeIndex(ToUpper(m.Fields[m.Cursor + 1]))],
                   NoCmd)
          ELSE Ret([m EXCEPT !.inTextEdit = TRUE, !.textBuf = m.Fields[m.Cursor + 1]], NoCmd))
    ELSE IF k = "ctrl+s"
    THEN Ret([m EXCEPT !.IsActive = FALSE], [type |-> "SaveActionMsg", Fields |-> m.Fields])
    ELSE IF k = "esc"
    THEN Ret([m EXCEPT !.IsActive = FALSE], [type |-> "CancelMsg"])
    ELSE Ret(m, NoCmd)

\* Update, field-form base
UpdateForm(m, k) ==
    IF k \in {"tab", "down"}
    THEN LET c == (m.Cursor + 1) % Len(m.Fields)
         IN  Ret([m EXCEPT !.Cursor = c, !.CharPos = Len(m.Fields[c + 1])], NoCmd)
    ELSE IF k \in {"shift+tab", "up"}
    THEN LET c == (m.Cursor - 1 + Len(m.Fields)) % Len(m.Fields)
         IN  Ret([m EXCEPT !.Cursor = c, !.CharPos = Len(m.Fields[c + 1])], NoCmd)
    ELSE IF k = "left"
    THEN Ret(IF m.CharPos > 0 THEN [m EXCEPT !.CharPos = m.CharPos - 1] ELSE m, NoCmd)
    ELSE IF k = "right"
    THEN Ret(IF m.CharPos < Len(m.Fields[m.Cursor + 1])
             THEN [m EXCEPT !.CharPos = m.CharPos + 1] ELSE m, NoCmd)
    ELSE IF k = "enter"
    THEN (IF isBoolField(m, m.Cursor)
          THEN Ret([m EXCEPT !.inBoolSelect = TRUE,
                             !.boolIndex = IF ToLower(m.Fields[m.Cursor + 1]) = strTrue
                                           THEN 0 ELSE 1], NoCmd)
          ELSE IF isTypeField(m, m.Cursor)
          THEN Ret([m EXCEPT !.inTypeSelect = TRUE,
                             !.typeIndex = InitialTypeIndex(ToUpper(m.Fields[m.Cursor + 1]))],
                   NoCmd)
          ELSE Ret([m EXCEPT !.inTextEdit = TRUE, !.textBuf = m.Fields[m.Cursor + 1]], NoCmd))
    ELSE IF k = "ctrl+s"
    THEN Ret([m EXCEPT !.IsActive = FALSE], [type |-> "SaveActionMsg", Fields |-> m.Fields])
    ELSE IF k = "esc"
    THEN Ret([m EXCEPT !.IsActive = FALSE], [type |-> "CancelMsg"])
    ELSE Ret(m, NoCmd)

\* popup.Model.Update: only key messages are looked at, in every mode
PopupUpdate(m, msg) ==
    IF ~m.IsActive THEN Ret(m, NoCmd)
    ELSE IF msg.type # "KeyMsg" THEN Ret(m, NoCmd)
    ELSE IF m.Mode = "nslist"
    THEN (IF m.inTextEdit THEN UpdateNSText(m, msg.key) ELSE UpdateNSList(m, msg.key))
    ELSE IF m.Mode = "confirm" THEN UpdateConfirm(m, msg.key)
    ELSE IF m.inTextEdit THEN UpdateTextEdit(m, msg.key)
    ELSE IF m.inTypeSelect THEN UpdateTypeSelect(m, msg.key)
    ELSE IF m.inBoolSelect /\ isBoolField(m, m.Cursor) THEN UpdateBoolSelect(m, msg.key)
    ELSE UpdateForm(m, msg.key)

(***************************************************************************)
(* Tables (bubbles/table as the main model uses it)                        *)
(***************************************************************************)
Min(a, b) == IF a < b THEN a ELSE b
Max(a, b) == IF a > b THEN a ELSE b
clamp(v, low, high) == Min(Max(v, low), high)

\* table.Model.MoveUp(1) / MoveDown(1): the cursor is clamped to [0, len-1],
\* which is -1 for a table without rows
MoveUp(t) == [t EXCEPT !.cursor = clamp(t.cursor - 1, 0, Len(t.rows) - 1)]
MoveDown(t) == [t EXCEPT !.cursor = clamp(t.cursor + 1, 0, Len(t.rows) - 1)]

\* table.Model.SetRows: a cursor past the last row is pulled back to it
SetRows(t, rows) ==
    [t EXCEPT !.rows = rows,
              !.cursor = IF t.cursor > Len(rows) - 1 THEN Len(rows) - 1 ELSE t.cursor]

\* table.Model.SelectedRow: nil (the empty row) when the cursor is on no row
SelectedRow(t) ==
    IF t.cursor < 0 \/ t.cursor >= Len(t.rows) THEN <<>> ELSE t.rows[t.cursor + 1]

(***************************************************************************)
(* Main model (package ui)                                                 *)
(***************************************************************************)
checkMark == <<"CHECK">>
crossMark == <<"CROSS">>
zonesTable == "zones"
rrsetTable == "rrset"
headerHeight == 3
statusHeight == 1
menuHeight == 1

\* Number of frames of spinner.Points
SpinnerFrames == 4

boolToCheckMark(b) == IF b THEN checkMark ELSE crossMark

\* A value of models.DNSRecord
DNSRecord(id, name, ttl, type, proxied, content) ==
    [ID |-> id, Name |-> name, TTL |-> ttl, Type |-> type, Proxied |-> proxied,
     Content |-> content]

\* The table row a record is shown as
RecordRow(rr) ==
    <<rr.Name, Itoa(rr.TTL), rr.Type, boolToCheckMark(rr.Proxied), rr.Content>>

\* NewModel, with the tables and the timeout rootCmdRun gives it
NewModel ==
    [width |-> 0, height |-> 0, frame |-> 0, loading |-> TRUE, current |-> "nil",
     rrsetCache |-> <<>>, popup |-> NilPopup, showPopup |-> FALSE, overlay |-> FALSE,
     creating |-> FALSE,
     ZonesTable |-> [rows |-> <<>>, cursor |-> 0, focus |-> TRUE,
                     cols |-> <<50, 100, 20>>, height |-> 35, width |-> 0],
     RRSetTable |-> [rows |-> <<>>, cursor |-> 0, focus |-> FALSE,
                     cols |-> <<50, 10, 10, 10, 70>>, height |-> 35, width |-> 0]]

\* The table m.current points to
Current(m) == IF m.current = "rrset" THEN m.RRSetTable ELSE m.ZonesTable
SetCurrent(m, t) ==
    IF m.current = "rrset" THEN [m EXCEPT !.RRSetTable = t] ELSE [m EXCEPT !.ZonesTable = t]

\* m.rrsetCache[zone], nil (empty) for a missing key
CacheGet(m, zone) == IF zone \in DOMAIN m.rrsetCache THEN m.rrsetCache[zone] ELSE <<>>
CachePut(cache, zone, rrset) ==
    [z \in (DOMAIN cache) \cup {zone} |-> IF z = zone THEN rrset ELSE cache[z]]

\* switchTable that leaves the Zones table focused when the Records table gets the focus
switchTable_KeepsZonesFocus(m, name) ==
    IF name = zonesTable
    THEN [m EXCEPT !.ZonesTable.focus = TRUE, !.RRSetTable.focus = FALSE,
                   !.current = "zones"]
    ELSE IF name = rrsetTable
    THEN [m EXCEPT !.RRSetTable.focus = TRUE, !.current = "rrset"]
    ELSE m

switchTable(m, name) ==
    IF name = zonesTable
    THEN [m EXCEPT !.ZonesTable.focus = TRUE, !.RRSetTable.focus = FALSE,
                   !.current = "zones"]
    ELSE IF name = rrsetTable
    THEN [m EXCEPT !.ZonesTable.focus = FALSE, !.RRSetTable.focus = TRUE,
                   !.current = "rrset"]
    ELSE m

\* viewRRSet: the Records rows are rebuilt from the cache entry of the selected zone
viewRRSet(m) ==
    LET selectedRow == SelectedRow(m.ZonesTable)
        rrset == IF Len(selectedRow) > 0 THEN CacheGet(m, selectedRow[1]) ELSE <<>>
        rows == [i \in DOMAIN rrset |-> RecordRow(rrset[i])]
    IN  [m EXCEPT !.RRSetTable = SetRows(m.RRSetTable, rows)]

\* View: rendering writes m.current, the Records rows and the overlay
View(m) ==
    LET m1 == IF m.RRSetTable.focus THEN viewRRSet([m EXCEPT !.current = "rrset"]) ELSE m
    IN  IF m1.showPopup THEN [m1 EXCEPT !.overlay = TRUE] ELSE m1

\* Index of the first record of rrset named name, 0 when there is none
FirstByName(rrset, name) ==
    LET hits == {i \in DOMAIN rrset : rrset[i].Name = name}
    IN  IF hits = {} THEN 0 ELSE CHOOSE i \in hits : \A j \in hits : i <= j

updateTableRow(m, index, newRow) ==
    LET rows == Current(m).rows
    IN  IF index >= 0 /\ index < Len(rows)
        THEN LET m1 == SetCurrent(m, SetRows(Current(m),
                                             [rows EXCEPT ![index + 1] = newRow]))
                 selectedRow == SelectedRow(m1.ZonesTable)
             IN  IF Len(selectedRow) > 0
                 THEN LET rrset == CacheGet(m1, selectedRow[1])
                          i == FirstByName(rrset, newRow[1])
                          upd == IF i = 0 THEN rrset
                                 ELSE [rrset EXCEPT
                                         ![i].TTL = Atoi(newRow[2]),
                                         ![i].Type = newRow[3],
                                         ![i].Proxied = (ToLower(newRow[4]) = strTrue),
                                         ![i].Content = newRow[5]]
                      IN  [m1 EXCEPT !.rrsetCache = CachePut(m1.rrsetCache,
                                                             selectedRow[1], upd)]
                 ELSE m1
        ELSE m

resizeZonesColumns(m) ==
    IF m.width <= 0 THEN m
    ELSE LET available == Max(m.width - 2 * 2, 20)
             minName == 12
             minNS == 10
             nameW0 == (available * 35) \div 100
             nsW0 == available - nameW0
             nameW1 == IF nameW0 < minName THEN minName ELSE nameW0
             nsW1 == IF nameW0 < minName THEN available - nameW1 ELSE nsW0
             nsW == IF nsW1 < minNS THEN minNS ELSE nsW1
             nameW == IF nsW1 < minNS THEN Max(available - nsW, 8) ELSE nameW1
         IN  [m EXCEPT !.ZonesTable.cols = <<nameW, nsW>>]

\* The Records columns sized without the floor of 40 on the available width
resizeRRSetColumns_NoFloor(m) ==
    IF m.width <= 0 THEN m
    ELSE LET available == m.width - 2 * 5
             zonesCols == m.ZonesTable.cols
             nameW0 == IF Len(zonesCols) > 0 THEN zonesCols[1] ELSE 12
             tight == available - (nameW0 + 8 + 8 + 10) < 20
             ttlW == IF tight THEN 6 ELSE 8
             typeW == IF tight THEN 6 ELSE 8
             proxiedW == IF tight THEN 8 ELSE 10
             remaining == available - (nameW0 + ttlW + typeW + proxiedW)
             minContent == 10
             reduce == Min(minContent - remaining, nameW0 - 8)
             nameW == IF remaining < minContent /\ nameW0 > 8 THEN nameW0 - reduce
                      ELSE nameW0
             contentW == IF remaining < minContent
                         THEN (IF nameW0 > 8
                               THEN available - (nameW + ttlW + typeW + proxiedW)
                               ELSE minContent)
                         ELSE remaining
         IN  [m EXCEPT !.RRSetTable.cols = <<nameW, ttlW, typeW, proxiedW, contentW>>]

resizeRRSetColumns(m) ==
    IF m.width <= 0 THEN m
    ELSE LET available == Max(m.width - 2 * 5, 40)
             zonesCols == m.ZonesTable.cols
             nameW0 == IF Len(zonesCols) > 0 THEN zonesCols[1] ELSE 12
             tight == available - (nameW0 + 8 + 8 + 10) < 20
             ttlW == IF tight THEN 6 ELSE 8
             typeW == IF tight THEN 6 ELSE 8
             proxiedW == IF tight THEN 8 ELSE 10
             remaining == available - (nameW0 + ttlW + typeW + proxiedW)
             minContent == 10
             reduce == Min(minContent - remaining, nameW0 - 8)
             nameW == IF remaining < minContent /\ nameW0 > 8 THEN nameW0 - reduce
                      ELSE nameW0
             contentW == IF remaining < minContent
                         THEN (IF nameW0 > 8
                               THEN available - (nameW + ttlW + typeW + proxiedW)
                               ELSE minContent)
                         ELSE remaining
         IN  [m EXCEPT !.RRSetTable.cols = <<nameW, ttlW, typeW, proxiedW, contentW>>]

applyLayout(m) ==
    LET available == Max(m.height - headerHeight - statusHeight - menuHeight, 3)
        m1 == [m EXCEPT !.ZonesTable.height = available, !.RRSetTable.height = available]
        m2 == resizeRRSetColumns(resizeZonesColumns(m1))
    IN  [m2 EXCEPT !.ZonesTable.width = m.width, !.RRSetTable.width = m.width]

\* What one call of Update returns: the model, the messages its commands
\* produce at once, the provider tasks its commands start, and whether the
\* program goes on, quits (tea.Quit) or panics
Res(m, msgs, tasks, status) == [m |-> m, msgs |-> msgs, tasks |-> tasks, status |-> status]
Go(m) == Res(m, <<>>, <<>>, "running")
Emit(m, msg) == Res(m, <<msg>>, <<>>, "running")
Start(m, task) == Res(m, <<>>, <<task>>, "running")
Panic(m) == Res(m, <<>>, <<>>, "crashed")

\* The comma-separated NS cell of a Zones row as the editor's initial list
SplitNameServers(nameServers) == SelectNonEmpty(TrimAll(Split(nameServers, ",")))

NSTitle(zoneName) == <<"Zone: ", zoneName, " - NameServers">>
\* The editor opened under the title of the create popup
EditTitle_Creation == <<"Resource record creation">>
EditTitle == <<"Resource record editing">>
CreateTitle == <<"Resource record creation">>

\* Update with a popup showing that still clears loading on dataLoadedMsg
UpdatePopupShowing_ClearsLoading(m, msg) ==
    LET r == PopupUpdate(m.popup, msg)
        m1 == [m EXCEPT !.popup = r.m,
                        !.loading = IF msg.type = "dataLoadedMsg" THEN FALSE ELSE m.loading]
        m2 == IF ~r.m.IsActive THEN [m1 EXCEPT !.showPopup = FALSE] ELSE m1
    IN  IF r.cmd.type = "none" THEN Go(m2) ELSE Emit(m2, r.cmd)

\* Update with a popup showing that leaves showPopup set when the popup has
\* become inactive
UpdatePopupShowing_KeepsShowing(m, msg) ==
    LET r == PopupUpdate(m.popup, msg)
        m1 == [m EXCEPT !.popup = r.m]
    IN  IF r.cmd.type = "none" THEN Go(m1) ELSE Emit(m1, r.cmd)

\* Update, popup showing: every message goes to the popup
UpdatePopupShowing(m, msg) ==
    LET r == PopupUpdate(m.popup, msg)
        m1 == [m EXCEPT !.popup = r.m]
        m2 == IF ~r.m.IsActive THEN [m1 EXCEPT !.showPopup = FALSE] ELSE m1
    IN  IF r.cmd.type = "none" THEN Go(m2) ELSE Emit(m2, r.cmd)

\* Update, key "e"
KeyE(m) ==
    IF m.RRSetTable.focus /\ m.current # "nil" /\ Current(m).cursor >= 0
    THEN LET rows == Current(m).rows
             cursor == Current(m).cursor
         IN  IF cursor < Len(rows) /\ Len(rows[cursor + 1]) >= 5
             THEN LET row == rows[cursor + 1]
                      proxiedStr == IF row[4] = checkMark THEN strTrue ELSE strFalse
                      initial == <<row[1], row[2], row[3], proxiedStr, row[5]>>
                  IN  [m EXCEPT !.showPopup = TRUE, !.creating = FALSE, !.overlay = FALSE,
                                !.popup = New(RecordColumns, initial, EditTitle)]
             ELSE m
    ELSE IF m.ZonesTable.focus /\ m.ZonesTable.cursor >= 0
    THEN LET rows == m.ZonesTable.rows
             cursor == m.ZonesTable.cursor
         IN  IF cursor < Len(rows) /\ Len(rows[cursor + 1]) >= 2
             THEN LET row == rows[cursor + 1]
                  IN  [m EXCEPT !.showPopup = TRUE, !.overlay = FALSE,
                                !.popup = NewNameServersEditor(SplitNameServers(row[2]),
                                                               NSTitle(row[1]))]
             ELSE m
    ELSE m

\* Update, key "c"
KeyC(m) ==
    IF m.RRSetTable.focus
    THEN [m EXCEPT !.showPopup = TRUE, !.creating = TRUE, !.overlay = FALSE,
                   !.popup = New(RecordColumns,
                                 << <<>>, <<"3", "6", "0", "0">>, <<"A">>, strFalse, <<>> >>,
                                 CreateTitle)]
    ELSE m

switchMsg == [type |-> "switchTableToRRSetCmd"]

\* The second switch with Enter ignored in both tables
KeyTypeSwitch_EnterIgnored(m, k) ==
    IF k = "space" THEN Emit(m, switchMsg) ELSE Go(m)

\* The second switch with Enter sending the switch message from either table
KeyTypeSwitch_EnterAlwaysSwitches(m, k) ==
    IF k \in {"enter", "space"} THEN Emit(m, switchMsg) ELSE Go(m)

\* Update, second switch of a key message: msg.Type
KeyTypeSwitch(m, k) ==
    IF k = "enter" THEN (IF m.ZonesTable.focus THEN Emit(m, switchMsg) ELSE Go(m))
    ELSE IF k = "space" THEN Emit(m, switchMsg)
    ELSE Go(m)

\* Update of a key where q and ctrl+c quit only from the Zones table
UpdateKey_QuitFromZonesOnly(m, k) ==
    IF k = "esc" THEN KeyTypeSwitch(switchTable(m, zonesTable), k)
    ELSE IF k \in {"up", "k"}
    THEN (IF m.current = "nil" THEN Panic(m)
          ELSE KeyTypeSwitch(SetCurrent(m, MoveUp(Current(m))), k))
    ELSE IF k \in {"down", "j"}
    THEN (IF m.current = "nil" THEN Panic(m)
          ELSE KeyTypeSwitch(SetCurrent(m, MoveDown(Current(m))), k))
    ELSE IF k = "e"
    THEN (IF m.RRSetTable.focus /\ m.current = "nil" THEN Panic(m)
          ELSE KeyTypeSwitch(KeyE(m), k))
    ELSE IF k = "c" THEN KeyTypeSwitch(KeyC(m), k)
    ELSE IF k = "r" THEN Emit(m, [type |-> "dataLoadingMsg"])
    ELSE IF k \in {"q", "ctrl+c"} /\ m.ZonesTable.focus THEN Res(m, <<>>, <<>>, "quit")
    ELSE KeyTypeSwitch(m, k)

\* Update, tea.KeyMsg with no popup showing
UpdateKey(m, k) ==
    IF k = "esc" THEN KeyTypeSwitch(switchTable(m, zonesTable), k)
    ELSE IF k \in {"up", "k"}
    THEN (IF m.current = "nil" THEN Panic(m)
          ELSE KeyTypeSwitch(SetCurrent(m, MoveUp(Current(m))), k))
    ELSE IF k \in {"down", "j"}
    THEN (IF m.current = "nil" THEN Panic(m)
          ELSE KeyTypeSwitch(SetCurrent(m, MoveDown(Current(m))), k))
    ELSE IF k = "e"
    THEN (IF m.RRSetTable.focus /\ m.current = "nil" THEN Panic(m)
          ELSE KeyTypeSwitch(KeyE(m), k))
    ELSE IF k = "c" THEN KeyTypeSwitch(KeyC(m), k)
    ELSE IF k = "r" THEN Emit(m, [type |-> "dataLoadingMsg"])
    ELSE IF k \in {"q", "ctrl+c"} THEN Res(m, <<>>, <<>>, "quit")
    ELSE KeyTypeSwitch(m, k)

\* Update, recordCreatedMsg
RecordCreated(m, record) ==
    LET zoneRow == SelectedRow(m.ZonesTable)
        m1 == IF Len(zoneRow) > 0
              THEN [m EXCEPT
                      !.rrsetCache = CachePut(m.rrsetCache, zoneRow[1],
                                              Append(CacheGet(m, zoneRow[1]), record)),
                      !.RRSetTable = SetRows(m.RRSetTable,
                                             Append(m.RRSetTable.rows, RecordRow(record)))]
              ELSE m
    IN  [m1 EXCEPT !.popup.IsActive = FALSE, !.showPopup = FALSE, !.creating = FALSE,
                   !.overlay = FALSE]

\* Update, popup.SaveNameServersMsg
\* The save of the nameserver list written to the first Zones row
SaveNameServers_FirstRow(m, servers) ==
    LET rows == m.ZonesTable.rows
        m1 == IF m.ZonesTable.focus /\ Len(rows) > 0
              THEN [m EXCEPT !.ZonesTable =
                        SetRows(m.ZonesTable, [rows EXCEPT ![1][2] = Join(servers)])]
              ELSE m
    IN  [m1 EXCEPT !.popup.IsActive = FALSE, !.showPopup = FALSE, !.overlay = FALSE]

SaveNameServers(m, servers) ==
    LET cursor == m.ZonesTable.cursor
        rows == m.ZonesTable.rows
        m1 == IF m.ZonesTable.focus /\ cursor >= 0 /\ cursor < Len(rows)
              THEN [m EXCEPT !.ZonesTable =
                        SetRows(m.ZonesTable,
                                [rows EXCEPT ![cursor + 1][2] = Join(servers)])]
              ELSE m
    IN  [m1 EXCEPT !.popup.IsActive = FALSE, !.showPopup = FALSE, !.overlay = FALSE]

\* Update: one message, as the runtime's event loop hands it over
Update(m, msg) ==
    IF m.showPopup THEN UpdatePopupShowing(m, msg)
    ELSE IF msg.type = "WindowSizeMsg"
    THEN Go(applyLayout([m EXCEPT !.height = msg.Height, !.width = msg.Width]))
    ELSE IF msg.type = "KeyMsg" THEN UpdateKey(m, msg.key)
    ELSE IF msg.type = "TickMsg"
    THEN Emit([m EXCEPT !.frame = (m.frame + 1) % SpinnerFrames], [type |-> "TickMsg"])
    ELSE IF msg.type = "dataLoadingMsg"
    THEN Emit([m EXCEPT !.loading = TRUE], [type |-> "updateRRSetMsg"])
    ELSE IF msg.type = "updateRRSetMsg"
    THEN (LET zone == SelectedRow(m.ZonesTable)
          IN  IF Len(zone) = 0 THEN Panic(m)
              ELSE Start(m, [kind |-> "updateRRSet", zone |-> zone[1], src |-> "reload"]))
    ELSE IF msg.type = "dataLoadedMsg" THEN Go([m EXCEPT !.loading = FALSE])
    ELSE IF msg.type = "recordCreatedMsg" THEN Go(RecordCreated(m, msg.record))
    ELSE IF msg.type = "switchTableToRRSetCmd" THEN Go(switchTable(m, rrsetTable))
    ELSE IF msg.type = "SaveActionMsg"
    THEN (IF m.creating
          THEN Start(m, [kind |-> "createRR", pc |-> "start", fields |-> msg.Fields])
          ELSE IF m.current = "nil" THEN Panic(m)
          ELSE Start(updateTableRow(m, Current(m).cursor, msg.Fields),
                     [kind |-> "updateRR", pc |-> "start", fields |-> msg.Fields]))
    ELSE IF msg.type = "SaveNameServersMsg" THEN Go(SaveNameServers(m, msg.Servers))
    ELSE IF msg.type = "CancelMsg"
    THEN Go([m EXCEPT !.popup.IsActive = FALSE, !.creating = FALSE])
    ELSE Go(m)

(***************************************************************************)
(* The provider, as the UI sees it                                         *)
(***************************************************************************)
\* Provider.ListZones: the zones of the account
ZoneList ==
    << [Name |-> <<"x">>, NameServers |-> << <<"n">>, <<"m">> >>],
       [Name |-> <<"y">>, NameServers |-> << <<"n">>, <<"n">>, <<"n">>, <<"n">>, <<"n">> >>] >>

\* What ListZones can return: the zones, or nothing (no zone, or a failed call)
ListZonesResults == {ZoneList, <<>>}

\* The listings of other accounts: no zone, one zone, the two in either order
ZoneLists ==
    {<<>>, <<ZoneList[1]>>, <<ZoneList[2]>>, ZoneList, <<ZoneList[2], ZoneList[1]>>}

\* Provider.ListRecords of a zone when the call succeeds
RemoteRecords(zone) ==
    IF zone = <<"x">>
    THEN << DNSRecord("r1", <<"w">>, 5, <<"T", "X", "T">>, FALSE, <<"v">>),
            DNSRecord("r2", <<"1">>, 7, <<"T", "X", "T">>, TRUE, <<"u">>) >>
    ELSE IF zone = <<"y">>
    THEN << DNSRecord("r3", <<"w">>, 5, <<"T", "X", "T">>, FALSE, <<"v">>) >>
    ELSE <<>>

\* The ID the provider gives a record it creates
NewRecordID == "new"

(***************************************************************************)
(* Deferred tasks: the bodies of the commands that call the provider. They   *)
(* run on their own goroutines, between calls of Update.                   *)
(***************************************************************************)
\* Init's command after ListZones returned zones: the Zones rows and m.current
\* The Zones rows filled in the reverse of the listing order
InitZones_Reversed(m, zones) ==
    LET n == Len(zones)
        rows == [i \in DOMAIN zones |->
                   <<zones[n + 1 - i].Name, Join(zones[n + 1 - i].NameServers)>>]
    IN  [m EXCEPT !.ZonesTable = SetRows(m.ZonesTable, rows), !.current = "zones"]

InitZones(m, zones) ==
    LET rows == [i \in DOMAIN zones |-> <<zones[i].Name, Join(zones[i].NameServers)>>]
    IN  [m EXCEPT !.ZonesTable = SetRows(m.ZonesTable, rows), !.current = "zones"]

\* updateRRSet's command after ListRecords returned rrset (empty on an error)
updateRRSet(m, zone, rrset) ==
    [m EXCEPT !.rrsetCache = CachePut(m.rrsetCache, zone, rrset)]

\* updateRRFromFields: the record handed to UpdateRR
updateRRTarget(m, zoneName, fields) ==
    LET rrset == CacheGet(m, zoneName)
        i == FirstByName(rrset, fields[1])
        target == IF i = 0 THEN DNSRecord("", <<>>, 0, <<>>, FALSE, <<>>) ELSE rrset[i]
    IN  [target EXCEPT !.Name = fields[1], !.TTL = Atoi(fields[2]), !.Type = fields[3],
                       !.Proxied = (ToLower(fields[4]) = strTrue), !.Content = fields[5]]

\* updateRRFromFields after UpdateRR returned without an error: the command
\* writes m.popup.IsActive, and then m.showPopup and m.overlay
updateRRDeactivate(m) == [m EXCEPT !.popup.IsActive = FALSE]
updateRRHide(m) == [m EXCEPT !.showPopup = FALSE, !.overlay = FALSE]

\* createRRFromFields: the parameters handed to AddRR
createRRParams(zoneName, fields) ==
    [Name |-> fields[1], TTL |-> Atoi(fields[2]), Type |-> fields[3],
     Proxied |-> (ToLower(fields[4]) = strTrue), Content |-> fields[5],
     ZoneName |-> zoneName]

(***************************************************************************)
(* The program: the runtime's event loop, the user and the tasks           *)
(***************************************************************************)
\* Bounds of the model: the number of keys the user presses in a run
MaxKeys == 3
MaxEditKeys == 7
MaxReloadKeys == 5
MaxCreateKeys == 5
MaxFairKeys == 3
MaxSwitchKeys == 3
MaxFormKeys == 4
MaxTextKeys == 2
MaxBoolKeys == 4
MaxNSKeys == 6
MaxAppendKeys == 5
MaxDupKeys == 4
MaxListKeys == 5
MaxWidth == 130
MaxFactories == 4

\* The keys the user presses and the terminal sizes a resize reports
Keys == {"down", "esc", "enter", "e", "c", "r", "ctrl+c", "ctrl+s"}
EditKeys == {"enter", "e", "backspace", "ctrl+s"}
ReloadKeys == {"enter", "e", "r", "ctrl+s"}
CreateKeys == {"enter", "e", "c", "ctrl+s"}
FairKeys == {"r", "e", "esc"}
SwitchKeys == {"enter", "e", "esc"}
FormKeys == {"enter", "e", "c", "tab", "shift+tab", "up", "down", "esc"}
TextKeys == {"enter", "esc", "backspace", "1", "."}

\* Buffers of the text editor: empty, numbers and non-numbers, hostnames and
\* non-hostnames, IPv4 and IPv6 literals and near misses
TextBuffers ==
    { <<>>, <<"1">>, <<"3", "0", "0">>, <<"3", "0", "a">>, <<"a">>, <<"-">>,
      <<"a", ".", "b">>, <<"a", "-">>, <<"a", "_", "b">>, <<"a", ".">>,
      <<"1", ".", "2", ".", "3", ".", "4">>, <<"1", ".", "2", ".", "3">>,
      <<"2", "5", "6", ".", "1", ".", "1", ".", "1">>,
      <<":", ":">>, <<":", ":", "1">>, <<":">>, <<"1", ":", ":", "g">> }

\* The fields of the form that are edited as text: name, ttl, content
TextFields == {0, 1, 4}
BoolKeys == {"enter", "esc", "left", "right", "up", "down"}
NSKeys == {"e", "down", "enter", "backspace", "-", "ctrl+s", "esc"}
AppendKeys == {"enter", "c", "ctrl+s", "esc", "down"}
DupKeys == {"down", "e", "ctrl+s", "esc"}
ListKeys == {"up", "down", "ctrl+d", "enter", "backspace", "esc"}
Sizes == {<<80, 24>>}
Heights == {1, 24}

(***************************************************************************)
(* The provider registry: a map of factories by type under a RWMutex         *)
(***************************************************************************)
\* NewProviderRegistry: no factory, the mutex free
NewProviderRegistry == [mu |-> [w |-> FALSE, r |-> 0], factories |-> <<>>]

\* The type names of the factories, "type1", "type2", ...
FactoryType(i) == <<"type", i>>

\* sync.RWMutex: Lock waits for the writer and the readers to leave, RLock for
\* the writer
CanLock_NoExclusion(mu) == TRUE
CanLock(mu) == ~mu.w /\ mu.r = 0
CanRLock(mu) == ~mu.w

\* r.factories[type] = factory
SetFactory(factories, type, factory) ==
    [t \in (DOMAIN factories) \cup {type} |-> IF t = type THEN factory ELSE factories[t]]

\* The orders in which a range over a map with the keys S can visit them
Orders(S) ==
    {q \in [1..Cardinality(S) -> S] : \A i, j \in DOMAIN q : q[i] = q[j] => i = j}

VARIABLES
    m,       \* the ui.Model
    msgs,    \* bag of messages sent to the program and not yet handled
    tasks,   \* bag of tasks running on their goroutines
    status,  \* "running", "quit" or "crashed"
    nkeys,   \* number of keys pressed so far
    registry \* the provider registry of the process

vars == <<m, msgs, tasks, status, nkeys, registry>>

RECURSIVE SeqToBag(_)
SeqToBag(q) == IF q = <<>> THEN EmptyBag ELSE SetToBag({Head(q)}) (+) SeqToBag(Tail(q))

One(x) == SetToBag({x})

TickMsg == [type |-> "TickMsg"]
dataLoadingMsg == [type |-> "dataLoadingMsg"]
updateRRSetMsg == [type |-> "updateRRSetMsg"]
dataLoadedMsg == [type |-> "dataLoadedMsg"]

\* Model.Init: the spinner's first tick and the zone-listing command
Init ==
    /\ m = NewModel
    /\ msgs = One(TickMsg)
    /\ tasks = One([kind |-> "init"])
    /\ status = "running"
    /\ nkeys = 0
    /\ registry = NewProviderRegistry

\* One turn of the event loop: Update, then View. When the program ends, its
\* messages and goroutines end with it
Handle(msg, rest) ==
    /\ status = "running"
    /\ \E r \in {Update(m, msg)} :
          /\ status' = r.status
          /\ IF r.status = "running"
             THEN /\ m' = View(r.m)
                  /\ msgs' = rest (+) SeqToBag(r.msgs)
                  /\ tasks' = tasks (+) SeqToBag(r.tasks)
             ELSE /\ m' = r.m
                  /\ msgs' = EmptyBag
                  /\ tasks' = EmptyBag
    /\ UNCHANGED registry

\* The messages of one type that wait to be handled
Pending(type) == {msg \in BagToSet(msgs) : msg.type = type}

\* The event loop takes msg and handles it
Deliver(msg) ==
    /\ Handle(msg, msgs (-) One(msg))
    /\ UNCHANGED nkeys

\* The user presses key k, at most max keys in a run
KeyStep(k, max) ==
    /\ nkeys < max
    /\ Handle(KeyMsg(k), msgs)
    /\ nkeys' = nkeys + 1

PressKey == \E k \in Keys : KeyStep(k, MaxKeys)
EditKey == \E k \in EditKeys : KeyStep(k, MaxEditKeys)
ReloadKey == \E k \in ReloadKeys : KeyStep(k, MaxReloadKeys)
CreateKey == \E k \in CreateKeys : KeyStep(k, MaxCreateKeys)
FairKey == \E k \in FairKeys : KeyStep(k, MaxFairKeys)
SwitchKey == \E k \in SwitchKeys : KeyStep(k, MaxSwitchKeys)
FormKey == \E k \in FormKeys : KeyStep(k, MaxFormKeys)
TextKey == \E k \in TextKeys : KeyStep(k, MaxTextKeys)
BoolKey == \E k \in BoolKeys : KeyStep(k, MaxBoolKeys)
NSKey == \E k \in NSKeys : KeyStep(k, MaxNSKeys)

Resize ==
    /\ \E size \in Sizes :
          Handle([type |-> "WindowSizeMsg", Width |-> size[1], Height |-> size[2]], msgs)
    /\ UNCHANGED nkeys

\* The terminal is resized to any width from 1 on
ResizeAny ==
    /\ \E w \in 1..MaxWidth, h \in Heights :
          Handle([type |-> "WindowSizeMsg", Width |-> w, Height |-> h], msgs)
    /\ UNCHANGED nkeys

SpinnerTick == \E msg \in Pending("TickMsg") : Deliver(msg)
DataLoading == \E msg \in Pending("dataLoadingMsg") : Deliver(msg)
UpdateRRSetMsg == \E msg \in Pending("updateRRSetMsg") : Deliver(msg)
DataLoaded == \E msg \in Pending("dataLoadedMsg") : Deliver(msg)
RecordCreatedMsg == \E msg \in Pending("recordCreatedMsg") : Deliver(msg)
SwitchTableToRRSet == \E msg \in Pending("switchTableToRRSetCmd") : Deliver(msg)
SaveAction == \E msg \in Pending("SaveActionMsg") : Deliver(msg)
SaveNameServersMsg == \E msg \in Pending("SaveNameServersMsg") : Deliver(msg)
Cancel == \E msg \in Pending("CancelMsg") : Deliver(msg)

\* The zone-listing command of Init, ListZones having returned zones
InitTaskOf(zones) ==
    /\ status = "running"
    /\ BagIn([kind |-> "init"], tasks)
    /\ m' = InitZones(m, zones)
    /\ IF zones = <<>>
       THEN \* tea.Batch() of no command is nil, and the command calls it
            /\ status' = "crashed"
            /\ tasks' = EmptyBag
            /\ msgs' = EmptyBag
       ELSE /\ status' = status
            /\ tasks' = (tasks (-) One([kind |-> "init"])) (+)
                        SeqToBag([i \in DOMAIN zones |->
                                    [kind |-> "updateRRSet", zone |-> zones[i].Name,
                                     src |-> "startup"]])
            /\ msgs' = msgs
    /\ UNCHANGED <<nkeys, registry>>

InitTask == \E zones \in ListZonesResults : InitTaskOf(zones)

\* The same command under any of the listings
InitTaskAny == \E zones \in ZoneLists : InitTaskOf(zones)

\* The command of updateRRSet, task t: ListRecords returns (ok, or an error),
\* the cache is written, and dataLoadedMsg is sent
Fetch(t, ok) ==
    /\ status = "running"
    /\ BagIn(t, tasks)
    /\ t.kind = "updateRRSet"
    /\ m' = updateRRSet(m, t.zone, IF ok THEN RemoteRecords(t.zone) ELSE <<>>)
    /\ tasks' = tasks (-) One(t)
    /\ msgs' = msgs (+) One(dataLoadedMsg)
    /\ UNCHANGED <<status, nkeys, registry>>

FetchTask == \E t \in BagToSet(tasks) : \E ok \in BOOLEAN : Fetch(t, ok)

\* A fetch whose ListRecords call succeeds
FetchOk == \E t \in BagToSet(tasks) : Fetch(t, TRUE)

\* The number of updateRRSet commands in flight
Fetching ==
    LET F == {t \in BagToSet(tasks) : t.kind = "updateRRSet"}
    IN  IF F = {} THEN 0 ELSE BagCardinality([t \in F |-> CopiesIn(t, tasks)])

\* The commands of updateRRSet write the map m.rrsetCache with no lock: when
\* two of them write it together, or one writes it while View reads it for the
\* focused Records table, the Go runtime may end the program with a fatal error
ConcurrentMapAccess ==
    /\ status = "running"
    /\ Fetching >= 2 \/ (Fetching >= 1 /\ m.RRSetTable.focus)
    /\ status' = "crashed"
    /\ msgs' = EmptyBag
    /\ tasks' = EmptyBag
    /\ UNCHANGED <<m, nkeys, registry>>

\* The command of updateRRFromFields, up to the UpdateRR call
UpdateRRStart ==
    /\ status = "running"
    /\ \E t \in BagToSet(tasks) :
          /\ t.kind = "updateRR" /\ t.pc = "start"
          /\ LET zoneRow == SelectedRow(m.ZonesTable)
             IN  tasks' = IF Len(zoneRow) = 0 THEN tasks (-) One(t)
                          ELSE (tasks (-) One(t)) (+)
                               One([kind |-> "updateRR", pc |-> "call",
                                    zone |-> zoneRow[1],
                                    target |-> updateRRTarget(m, zoneRow[1], t.fields)])
    /\ UNCHANGED <<m, msgs, status, nkeys, registry>>

\* The command of updateRRFromFields, from the return of UpdateRR: on an error
\* it ends, else it deactivates the popup
UpdateRRDone ==
    /\ status = "running"
    /\ \E t \in BagToSet(tasks) :
          /\ t.kind = "updateRR" /\ t.pc = "call"
          /\ \E ok \in BOOLEAN :
                IF ok
                THEN /\ m' = updateRRDeactivate(m)
                     /\ tasks' = (tasks (-) One(t)) (+) One([kind |-> "updateRR", pc |-> "hide"])
                ELSE /\ m' = m
                     /\ tasks' = tasks (-) One(t)
    /\ UNCHANGED <<msgs, status, nkeys, registry>>

\* The same command's next statements, which hide the popup; the event loop
\* can run between the two writes
UpdateRRHide ==
    /\ status = "running"
    /\ \E t \in BagToSet(tasks) :
          /\ t.kind = "updateRR" /\ t.pc = "hide"
          /\ m' = updateRRHide(m)
          /\ tasks' = tasks (-) One(t)
    /\ UNCHANGED <<msgs, status, nkeys, registry>>

\* The command of createRRFromFields, up to the AddRR call
CreateRRStart ==
    /\ status = "running"
    /\ \E t \in BagToSet(tasks) :
          /\ t.kind = "createRR" /\ t.pc = "start"
          /\ LET zoneRow == SelectedRow(m.ZonesTable)
             IN  tasks' = IF Len(zoneRow) = 0 THEN tasks (-) One(t)
                          ELSE (tasks (-) One(t)) (+)
                               One([kind |-> "createRR", pc |-> "call",
                                    zone |-> zoneRow[1],
                                    params |-> createRRParams(zoneRow[1], t.fields)])
    /\ UNCHANGED <<m, msgs, status, nkeys, registry>>

\* The command of createRRFromFields, from the return of AddRR
CreateRRDone ==
    /\ status = "running"
    /\ \E t \in BagToSet(tasks) :
          /\ t.kind = "createRR" /\ t.pc = "call"
          /\ \E ok \in BOOLEAN :
                msgs' = IF ok
                        THEN msgs (+) One([type |-> "recordCreatedMsg",
                                           record |-> DNSRecord(NewRecordID, t.params.Name,
                                                                t.params.TTL, t.params.Type,
                                                                t.params.Proxied,
                                                                t.params.Content)])
                        ELSE msgs
          /\ tasks' = tasks (-) One(t)
    /\ UNCHANGED <<m, status, nkeys, registry>>

\* A step of a deferred task, on its own goroutine
TaskStep ==
    \/ InitTask \/ FetchTask \/ ConcurrentMapAccess \/ UpdateRRStart \/ UpdateRRDone \/ UpdateRRHide
    \/ CreateRRStart \/ CreateRRDone

\* The whole program
Next ==
    \/ PressKey \/ Resize
    \/ SpinnerTick \/ DataLoading \/ UpdateRRSetMsg \/ DataLoaded \/ RecordCreatedMsg
    \/ SwitchTableToRRSet \/ SaveAction \/ SaveNameServersMsg \/ Cancel
    \/ InitTask \/ FetchTask \/ ConcurrentMapAccess \/ UpdateRRStart \/ UpdateRRDone \/ UpdateRRHide
    \/ CreateRRStart \/ CreateRRDone

Spec == Init /\ [][Next]_vars

\* The user edits a record of the first zone; no reload, resize or tick
NextEdit ==
    \/ EditKey
    \/ DataLoaded \/ SwitchTableToRRSet \/ SaveAction \/ SaveNameServersMsg
    \/ InitTask \/ FetchTask \/ ConcurrentMapAccess \/ UpdateRRStart \/ UpdateRRDone \/ UpdateRRHide

SpecEdit == Init /\ [][NextEdit]_vars

\* The user reloads and edits records; no creation, resize or tick
NextReload ==
    \/ ReloadKey
    \/ DataLoading \/ UpdateRRSetMsg \/ DataLoaded
    \/ SwitchTableToRRSet \/ SaveAction \/ SaveNameServersMsg
    \/ InitTask \/ FetchTask \/ ConcurrentMapAccess \/ UpdateRRStart \/ UpdateRRDone \/ UpdateRRHide

SpecReload == Init /\ [][NextReload]_vars

\* The user creates and edits records; no reload, resize or tick
NextCreate ==
    \/ CreateKey
    \/ DataLoaded \/ RecordCreatedMsg
    \/ SwitchTableToRRSet \/ SaveAction \/ SaveNameServersMsg
    \/ InitTask \/ FetchTask \/ ConcurrentMapAccess \/ UpdateRRStart \/ UpdateRRDone \/ UpdateRRHide
    \/ CreateRRStart \/ CreateRRDone

SpecCreate == Init /\ [][NextCreate]_vars

\* The user reloads and opens and closes the nameserver editor; every message
\* sent is handled and every provider call returns
NextFair ==
    \/ FairKey
    \/ DataLoading \/ UpdateRRSetMsg \/ DataLoaded \/ Cancel
    \/ InitTask \/ FetchTask \/ ConcurrentMapAccess

SpecFair ==
    /\ Init /\ [][NextFair]_vars
    /\ WF_vars(DataLoading) /\ WF_vars(UpdateRRSetMsg) /\ WF_vars(DataLoaded)
    /\ WF_vars(Cancel) /\ WF_vars(InitTask) /\ WF_vars(FetchTask)

\* Switching tables: the event loop delivers every message it holds and every
\* provider task returns
NextSwitch ==
    \/ SwitchKey
    \/ SwitchTableToRRSet \/ DataLoaded \/ Cancel
    \/ InitTask \/ FetchTask \/ ConcurrentMapAccess

SpecSwitch ==
    /\ Init /\ [][NextSwitch]_vars
    /\ WF_vars(SwitchTableToRRSet) /\ WF_vars(DataLoaded) /\ WF_vars(Cancel)
    /\ WF_vars(InitTask) /\ WF_vars(FetchTask)

\* Moving in the field form and its sub-editors
NextForm ==
    \/ FormKey
    \/ SwitchTableToRRSet \/ DataLoaded \/ Cancel
    \/ InitTask \/ FetchTask \/ ConcurrentMapAccess

SpecForm == Init /\ [][NextForm]_vars

\* The text editor of the record form. The program has loaded zone x, whose
\* one record is of type t, the Records table is focused and e has opened the
\* editor; the user has moved to text field c, pressed Enter and typed buf
TextEditModel(t, c, buf) ==
    LET rec == DNSRecord("r1", <<"w">>, 5, t, FALSE, <<"v">>)
        m1 == InitZones(NewModel, ZoneList)
        m2 == updateRRSet(updateRRSet(m1, <<"x">>, <<rec>>), <<"y">>, <<>>)
        m3 == View(switchTable([m2 EXCEPT !.loading = FALSE], rrsetTable))
        m4 == KeyE(m3)
    IN  View([m4 EXCEPT !.popup.Cursor = c,
                        !.popup.CharPos = IF c = 0 THEN 0 ELSE Len(m4.popup.Fields[c + 1]),
                        !.popup.inTextEdit = TRUE,
                        !.popup.textBuf = buf])

InitTextEdit ==
    /\ \E t \in Range(supportedTypes), c \in TextFields, buf \in TextBuffers :
          m = TextEditModel(t, c, buf)
    /\ msgs = One(TickMsg)
    /\ tasks = EmptyBag
    /\ status = "running"
    /\ nkeys = 0
    /\ registry = NewProviderRegistry

NextTextEdit == TextKey \/ Cancel

SpecTextEdit == InitTextEdit /\ [][NextTextEdit]_vars

\* Startup under any listing: the zones are listed and their records fetched
NextStartup ==
    InitTaskAny \/ FetchTask \/ DataLoaded \/ SpinnerTick \/ Resize \/ ConcurrentMapAccess

SpecStartup == Init /\ [][NextStartup]_vars

\* Startup with every provider call returning and every message handled
SpecStartupFair ==
    /\ Init /\ [][NextStartup]_vars
    /\ WF_vars(InitTaskAny) /\ WF_vars(FetchTask) /\ WF_vars(DataLoaded)

\* Startup with a provider whose ListRecords calls all succeed
NextFetch ==
    InitTaskAny \/ FetchOk \/ DataLoaded \/ SpinnerTick \/ Resize \/ ConcurrentMapAccess

SpecFetch == Init /\ [][NextFetch]_vars

(***************************************************************************)
(* Goroutines that register factories of distinct types in one registry,   *)
(* and the caller that asks for the supported types once they have returned*)
(***************************************************************************)
RegisterCall(i) == [kind |-> "Register", type |-> FactoryType(i), pc |-> "Lock"]
MainCall == [kind |-> "GetSupportedTypes", pc |-> "wait", types |-> <<>>]

InitRegistry ==
    /\ m = NewModel
    /\ msgs = EmptyBag
    /\ \E S \in SUBSET (1..MaxFactories) :
          /\ Cardinality(S) >= 2
          /\ tasks = SetToBag({RegisterCall(i) : i \in S}) (+) One(MainCall)
    /\ status = "running"
    /\ nkeys = 0
    /\ registry = NewProviderRegistry

\* The Register calls that have not returned
Registering == {t \in BagToSet(tasks) : t.kind = "Register" /\ t.pc # "returned"}

\* Task t moves on to pc
Goto(t, pc) == tasks' = (tasks (-) One(t)) (+) One([t EXCEPT !.pc = pc])

\* Register: r.mu.Lock()
RegisterLock ==
    /\ status = "running"
    /\ \E t \in Registering :
          /\ t.pc = "Lock"
          /\ CanLock(registry.mu)
          /\ registry' = [registry EXCEPT !.mu.w = TRUE]
          /\ Goto(t, "store")
    /\ UNCHANGED <<m, msgs, status, nkeys>>

\* Register: r.factories[factory.Type()] = factory. A write of the map while
\* another goroutine is writing it is a data race, which the runtime may end
\* with a fatal error
RegisterStore ==
    /\ status = "running"
    /\ \E t \in Registering :
          /\ t.pc = "store"
          /\ \E fatal \in {FALSE} \cup {\E u \in Registering \ {t} : u.pc # "Lock"} :
                IF fatal
                THEN /\ status' = "crashed"
                     /\ tasks' = EmptyBag
                     /\ registry' = registry
                ELSE /\ status' = status
                     /\ registry' = [registry EXCEPT
                                        !.factories = SetFactory(@, t.type, t.type)]
                     /\ Goto(t, "Unlock")
    /\ UNCHANGED <<m, msgs, nkeys>>

\* Register: the deferred r.mu.Unlock(), and the call returns
RegisterUnlock ==
    /\ status = "running"
    /\ \E t \in Registering :
          /\ t.pc = "Unlock"
          /\ registry' = [registry EXCEPT !.mu.w = FALSE]
          /\ Goto(t, "returned")
    /\ UNCHANGED <<m, msgs, status, nkeys>>

\* The caller that waited for the Register calls: GetSupportedTypes, r.mu.RLock()
GetSupportedTypesRLock ==
    /\ status = "running"
    /\ Registering = {}
    /\ \E t \in BagToSet(tasks) :
          /\ t.kind = "GetSupportedTypes" /\ t.pc = "wait"
          /\ CanRLock(registry.mu)
          /\ registry' = [registry EXCEPT !.mu.r = @ + 1]
          /\ Goto(t, "range")
    /\ UNCHANGED <<m, msgs, status, nkeys>>

\* GetSupportedTypes: the range over the map, in an order the runtime chooses
GetSupportedTypesRange ==
    /\ status = "running"
    /\ \E t \in BagToSet(tasks) :
          /\ t.kind = "GetSupportedTypes" /\ t.pc = "range"
          /\ \E types \in Orders(DOMAIN registry.factories) :
                tasks' = (tasks (-) One(t)) (+)
                         One([t EXCEPT !.pc = "RUnlock", !.types = types])
    /\ UNCHANGED <<m, msgs, status, nkeys, registry>>

\* GetSupportedTypes: the deferred r.mu.RUnlock(), and the call returns
GetSupportedTypesRUnlock ==
    /\ status = "running"
    /\ \E t \in BagToSet(tasks) :
          /\ t.kind = "GetSupportedTypes" /\ t.pc = "RUnlock"
          /\ registry' = [registry EXCEPT !.mu.r = @ - 1]
          /\ Goto(t, "returned")
    /\ UNCHANGED <<m, msgs, status, nkeys>>

NextRegistry ==
    \/ RegisterLock \/ RegisterStore \/ RegisterUnlock
    \/ GetSupportedTypesRLock \/ GetSupportedTypesRange \/ GetSupportedTypesRUnlock

\* The Go scheduler lets every goroutine that can run do so
SpecRegistry == InitRegistry /\ [][NextRegistry]_vars /\ WF_vars(NextRegistry)

\* A create has been submitted and its record is not yet in the cache
CreateInFlight ==
    \/ \E t \in BagToSet(tasks) : t.kind = "createRR"
    \/ Pending("recordCreatedMsg") # {}
    \/ Pending("SaveActionMsg") # {}

\* The user creates records with the first of the listed zones selected, and
\* goes back to the Zones table and down it only while a create is in flight
AppendKey ==
    \E k \in AppendKeys :
       /\ k = "c" => (m.ZonesTable.rows # <<>> /\ m.ZonesTable.cursor = 0)
       /\ k = "esc" => (CreateInFlight /\ ~m.showPopup)
       /\ k = "down" => (CreateInFlight /\ ~m.showPopup /\ m.ZonesTable.focus)
       /\ KeyStep(k, MaxAppendKeys)

NextAppend ==
    \/ AppendKey
    \/ DataLoaded \/ RecordCreatedMsg \/ SwitchTableToRRSet \/ SaveAction
    \/ InitTask \/ FetchTask \/ ConcurrentMapAccess \/ CreateRRStart \/ CreateRRDone

SpecAppend == Init /\ [][NextAppend]_vars

\* A zone whose second record has the name of the first or a name of its own:
\* the zones are listed, the records of the first zone fetched, the Records
\* table focused and rendered
DupModel(name) ==
    LET rrset == << DNSRecord("r1", <<"w">>, 5, <<"T", "X", "T">>, FALSE, <<"v">>),
                    DNSRecord("r2", name, 7, <<"T", "X", "T">>, TRUE, <<"u">>) >>
        m1 == InitZones(NewModel, ZoneList)
        m2 == updateRRSet(updateRRSet(m1, <<"x">>, rrset), <<"y">>, <<>>)
    IN  View(switchTable([m2 EXCEPT !.loading = FALSE], rrsetTable))

InitDup ==
    /\ \E name \in {<<"w">>, <<"1">>} : m = DupModel(name)
    /\ msgs = One(TickMsg)
    /\ tasks = EmptyBag
    /\ status = "running"
    /\ nkeys = 0
    /\ registry = NewProviderRegistry

\* The user opens the editor of a record and saves it, and moves the cursor
\* only while no save waits to be handled
DupKey ==
    \E k \in DupKeys :
       /\ k = "down" => Pending("SaveActionMsg") = {}
       /\ KeyStep(k, MaxDupKeys)

NextDup == DupKey \/ SpinnerTick \/ SaveAction \/ Cancel \/ UpdateRRStart \/ UpdateRRDone \/ UpdateRRHide

SpecDup == InitDup /\ [][NextDup]_vars

\* The nameserver list editor alone: the Zones table holds one zone with the
\* nameservers initial, and the user has pressed e on it
NSLists ==
    {<<>>, << <<"n">> >>, << <<"n">>, <<"m">> >>, << <<"n">>, <<"m">>, <<"n">> >>,
     << <<"n">>, <<"m">>, <<"n">>, <<"m">> >>,
     << <<"n">>, <<"n">>, <<"n">>, <<"n">>, <<"n">> >>}

ListModel(initial) ==
    LET zones == <<[Name |-> <<"x">>, NameServers |-> initial]>>
        m1 == updateRRSet(InitZones(NewModel, zones), <<"x">>, <<>>)
    IN  View(KeyE([m1 EXCEPT !.loading = FALSE]))

InitList ==
    /\ \E initial \in NSLists : m = ListModel(initial)
    /\ msgs = One(TickMsg)
    /\ tasks = EmptyBag
    /\ status = "running"
    /\ nkeys = 0
    /\ registry = NewProviderRegistry

\* The keys of the list editor, pressed while it is showing
ListKey == \E k \in ListKeys : m.showPopup /\ KeyStep(k, MaxListKeys)

NextList == ListKey \/ SpinnerTick \/ Cancel

SpecList == InitList /\ [][NextList]_vars

\* Resizing the terminal
NextResize == ResizeAny \/ SpinnerTick

SpecResize == Init /\ [][NextResize]_vars

\* Editing the nameserver list of a zone
NextNS ==
    \/ NSKey
    \/ SwitchTableToRRSet \/ DataLoaded \/ SaveNameServersMsg \/ Cancel
    \/ InitTask \/ FetchTask \/ ConcurrentMapAccess

SpecNS == Init /\ [][NextNS]_vars

\* The record editor on field c. The program has loaded zone x, whose one
\* record is rec, the Records table is focused, e has opened the editor and
\* the user has moved the field cursor to field c > 0
EditorModel(rec, c) ==
    LET m1 == InitZones(NewModel, ZoneList)
        m2 == updateRRSet(updateRRSet(m1, <<"x">>, <<rec>>), <<"y">>, <<>>)
        m3 == View(switchTable([m2 EXCEPT !.loading = FALSE], rrsetTable))
        m4 == KeyE(m3)
    IN  View([m4 EXCEPT !.popup.Cursor = c,
                        !.popup.CharPos = Len(m4.popup.Fields[c + 1])])

\* The bool selector: the editor is on the Proxied field of a record that is
\* proxied or not
InitBool ==
    /\ \E proxied \in BOOLEAN :
          m = EditorModel(DNSRecord("r1", <<"w">>, 5, <<"T", "X", "T">>, proxied, <<"v">>), 3)
    /\ msgs = One(TickMsg)
    /\ tasks = EmptyBag
    /\ status = "running"
    /\ nkeys = 0
    /\ registry = NewProviderRegistry

NextBool == BoolKey \/ Cancel

SpecBool == InitBool /\ [][NextBool]_vars

(***************************************************************************)
(* Properties                                                              *)
(***************************************************************************)
\* C1: in every reachable state of the main model exactly one of ZonesTable
\* and RRSetTable is focused
C1_ExactlyOneFocused == m.ZonesTable.focus # m.RRSetTable.focus

\* The focus has moved to the Records table
C1_RecordsFocused == status = "running" /\ m.RRSetTable.focus /\ ~m.ZonesTable.focus

\* C2: the results of provider work reach the Zones rows, the record cache,
\* m.current and the popup, showPopup and overlay fields only in a turn of the
\* event loop; no step of a deferred task writes one of these fields
C2_OnlyUpdateWritesModel ==
    [][TaskStep => /\ m'.ZonesTable.rows = m.ZonesTable.rows
                   /\ m'.rrsetCache = m.rrsetCache
                   /\ m'.current = m.current
                   /\ m'.popup = m.popup
                   /\ m'.showPopup = m.showPopup
                   /\ m'.overlay = m.overlay]_vars

\* C3: a fetch whose ListRecords call failed leaves the already populated
\* cache entry of its zone, and so the whole cache, as it was
C3_FailedFetchKeepsCache ==
    [][\A t \in BagToSet(tasks) :
          (Fetch(t, FALSE) /\ CacheGet(m, t.zone) # <<>>)
              => m'.rrsetCache = m.rrsetCache]_vars

\* The records of the selected zone in the cache
SelectedZoneRecords(mm) ==
    LET zoneRow == SelectedRow(mm.ZonesTable)
    IN  IF Len(zoneRow) > 0 THEN CacheGet(mm, zoneRow[1]) ELSE <<>>

\* rr with the values of a saved field vector
SavedRecord(rr, fields) ==
    [rr EXCEPT !.TTL = Atoi(fields[2]), !.Type = fields[3],
               !.Proxied = (ToLower(fields[4]) = strTrue), !.Content = fields[5]]

\* A save message of the field form that the main model is about to handle as
\* the save of an existing record
PendingEditSave(msg) ==
    /\ status = "running"
    /\ msg.type = "SaveActionMsg"
    /\ ~m.showPopup
    /\ ~m.creating

\* C4: with the Records table focused and exactly one record of the selected
\* zone's cache named fields[0], Update of a field-form save message returns a
\* model whose Records row at the cursor is the saved fields and whose cache
\* record of that name carries the saved TTL, Type, Proxied and Content
C4_SaveSetsRowAndCache ==
    \A msg \in BagToSet(msgs) :
        LET rrset == SelectedZoneRecords(m)
            hits == {i \in DOMAIN rrset : rrset[i].Name = msg.Fields[1]}
        IN  (PendingEditSave(msg) /\ m.RRSetTable.focus /\ Cardinality(hits) = 1)
                => LET r == Update(m, msg).m
                       i == CHOOSE j \in hits : TRUE
                   IN  /\ SelectedRow(r.RRSetTable) = msg.Fields
                       /\ SelectedZoneRecords(r)[i] = SavedRecord(rrset[i], msg.Fields)

\* C5: whenever the save of an existing record starts the command that calls
\* UpdateRR with a zone selected, the model Update returns holds, in the cache
\* of the selected zone, a record with the saved Name, TTL, Type, Proxied and
\* Content
C5_CacheUpdatedBeforeUpdateRR ==
    \A msg \in BagToSet(msgs) :
        (PendingEditSave(msg) /\ m.current # "nil")
            => LET r == Update(m, msg)
                   rrset == SelectedZoneRecords(r.m)
               IN  (r.tasks # <<>> /\ Len(SelectedRow(r.m.ZonesTable)) > 0)
                       => \E i \in DOMAIN rrset :
                             /\ rrset[i].Name = msg.Fields[1]
                             /\ rrset[i] = SavedRecord(rrset[i], msg.Fields)

\* C6: when AddRR has succeeded, Update of its recordCreatedMsg appends exactly
\* the created record to the selected zone's cache entry and its row to the
\* Records rows
C6_CreatedRecordAppended ==
    \A msg \in BagToSet(msgs) :
        (status = "running" /\ msg.type = "recordCreatedMsg")
            => LET r == Update(m, msg).m
               IN  /\ Len(SelectedRow(m.ZonesTable)) > 0
                   /\ SelectedZoneRecords(r) = Append(SelectedZoneRecords(m), msg.record)
                   /\ r.RRSetTable.rows = Append(m.RRSetTable.rows, RecordRow(msg.record))

\* C7: the list of a nameserver-list popup has at least 2 and at most 4 entries
C7_ListLengthBounds ==
    (m.showPopup /\ m.popup.Mode = "nslist")
        => (2 <= Len(m.popup.ListValues) /\ Len(m.popup.ListValues) <= 4)

\* A reload has set loading and its fetch has not written the cache yet
ReloadPending ==
    \/ BagIn(updateRRSetMsg, msgs)
    \/ \E t \in BagToSet(tasks) : t.kind = "updateRRSet" /\ t.src = "reload"

\* C8: loading does not go from true to false while the fetch of a reload has
\* not replaced the cache entry yet
C8_LoadingHeldUntilReloadDone ==
    [][(m.loading /\ ~m'.loading) => ~ReloadPending]_vars

\* C9: once a reload has set loading, loading eventually becomes false again
\* (or the program has ended), whatever keys the user presses meanwhile
C9_LoadingEventuallyClears ==
    (status = "running" /\ m.loading /\ BagIn(updateRRSetMsg, msgs))
        ~> (~m.loading \/ status # "running")

\* C10: handling a spinner tick while loading is false leaves the spinner's
\* frame as it was and schedules no further tick
C10_TickStopsWhenLoaded ==
    [][(SpinnerTick /\ ~m.loading)
          => (m'.frame = m.frame /\ ~BagIn(TickMsg, msgs'))]_vars

\* The messages the event loop can hand to Update in the current state
Deliverable ==
    BagToSet(msgs) \cup {KeyMsg(k) : k \in Keys}
        \cup {[type |-> "WindowSizeMsg", Width |-> size[1], Height |-> size[2]] :
                size \in Sizes}

\* C11: while a popup is showing, Update of any message changes nothing of the
\* main model but the popup itself and showPopup, which stays true exactly
\* when the popup is still active; it starts no task and ends no program
C11_PopupDelegationFrame ==
    (status = "running" /\ m.showPopup)
        => \A msg \in Deliverable :
              LET r == Update(m, msg)
              IN  /\ r.status = "running"
                  /\ r.tasks = <<>>
                  /\ r.m = [m EXCEPT !.popup = r.m.popup, !.showPopup = r.m.popup.IsActive]

\* A popup is showing while the completion of a fetch waits to be handled
C11_PopupShowingWithLoaded ==
    /\ status = "running" /\ m.showPopup /\ m.loading
    /\ Pending("dataLoadedMsg") # {}

\* The keys that quit
QuitKeys == {"q", "ctrl+c"}

\* C12, as stated: in every reachable state, popup showing or not, Update of
\* q or ctrl+c returns the quit command
C12_QuitInEveryState ==
    status = "running" => \A k \in QuitKeys : Update(m, KeyMsg(k)).status = "quit"

\* C12, with no popup showing: whichever table is focused, Update of q or
\* ctrl+c returns the quit command
C12_QuitWhenNoPopup ==
    (status = "running" /\ ~m.showPopup)
        => \A k \in QuitKeys : Update(m, KeyMsg(k)).status = "quit"

\* The program has quit from the Records table
C12_QuitFromRecords == status = "quit" /\ m.RRSetTable.focus /\ ~m.showPopup

\* The Records table is focused with the cursor on a row and no popup showing
OnRecordsRow ==
    /\ status = "running" /\ ~m.showPopup
    /\ m.RRSetTable.focus /\ m.current = "rrset"
    /\ Len(SelectedRow(m.RRSetTable)) >= 5

\* The fields the record editor is opened with for a Records row
RowFields(row) ==
    <<row[1], row[2], row[3], IF row[4] = checkMark THEN strTrue ELSE strFalse, row[5]>>

C14_EnterLeadsToRecords ==
    /\ [](status = "running" /\ ~m.showPopup /\ m.ZonesTable.focus
            => Update(m, KeyMsg("enter")) = Emit(m, [type |-> "switchTableToRRSetCmd"]))
    /\ [](status = "running" /\ ~m.showPopup
            => \A msg \in Pending("switchTableToRRSetCmd") :
                  LET r == Update(m, msg)
                  IN  /\ r.status = "running"
                      /\ r.m.RRSetTable.focus /\ ~r.m.ZonesTable.focus
                      /\ r.m.current = "rrset")
    /\ ((status = "running" /\ Pending("switchTableToRRSetCmd") # {})
            ~> (m.RRSetTable.focus \/ m.showPopup \/ status # "running"))

\* One Enter was pressed on the Zones table, its switch message has been
\* handled and the Records table is focused
C14_SwitchedAfterEnter ==
    /\ status = "running" /\ nkeys = 1 /\ ~m.showPopup
    /\ Pending("switchTableToRRSetCmd") = {}
    /\ m.RRSetTable.focus /\ ~m.ZonesTable.focus /\ m.current = "rrset"

\* C15: with the Records table focused and its cursor on a row, Update of e
\* shows an active field form titled "Resource record editing" whose fields
\* are the row's Name, TTL, Type, "true"/"false" for the check mark, Content,
\* with the field cursor at 0, no sub-editor open and creating cleared; the
\* Records table and the cache are as they were
C15_EditOpensRowForm ==
    (/\ status = "running" /\ ~m.showPopup /\ m.RRSetTable.focus
     /\ m.RRSetTable.cursor >= 0 /\ m.RRSetTable.cursor < Len(m.RRSetTable.rows))
        => LET row == m.RRSetTable.rows[m.RRSetTable.cursor + 1]
               r == Update(m, KeyMsg("e"))
           IN  /\ r.status = "running" /\ r.msgs = <<>> /\ r.tasks = <<>>
               /\ r.m.showPopup /\ r.m.popup.IsActive /\ ~r.m.creating
               /\ r.m.popup.Mode = ""
               /\ r.m.popup.Title = <<"Resource record editing">>
               /\ r.m.popup.ColumnNames = RecordColumns
               /\ r.m.popup.Fields = RowFields(row)
               /\ r.m.popup.Cursor = 0
               /\ ~r.m.popup.inTextEdit /\ ~r.m.popup.inTypeSelect /\ ~r.m.popup.inBoolSelect
               /\ r.m.RRSetTable = m.RRSetTable
               /\ r.m.ZonesTable = m.ZonesTable
               /\ r.m.rrsetCache = m.rrsetCache

\* The editor is showing for a proxied row of the Records table, just opened
C15_EditorOpenOnProxiedRow ==
    /\ status = "running" /\ m.showPopup /\ m.popup.IsActive /\ ~m.creating
    /\ m.RRSetTable.focus
    /\ m.popup.Mode = "" /\ m.popup.Title = <<"Resource record editing">>
    /\ m.popup.Fields[4] = strTrue
    /\ m.popup.Fields = RowFields(SelectedRow(m.RRSetTable))

\* The fields the create popup is opened with
CreateFields == << <<>>, <<"3", "6", "0", "0">>, <<"A">>, <<"f", "a", "l", "s", "e">>, <<>> >>

\* A save message of a popup that was opened with c: the keys of SpecCreate
\* never move the field cursor off the name, so the TTL field still holds the
\* 3600 of the create popup, a TTL no record of the provider has
OpenedWithC(msg) == msg.Fields[2] = CreateFields[2]

\* C16: c changes nothing with the Zones table focused; with the Records table
\* focused it shows the field form holding "", "3600", "A", "false", "" with
\* creating set; and the main model starts the create request for the save
\* message of a popup opened with c and the update request for the save
\* message of a popup opened with e
C16_CreateOpensAndRoutes ==
    (status = "running" /\ ~m.showPopup)
        => /\ m.ZonesTable.focus => Update(m, KeyMsg("c")) = Go(m)
           /\ m.RRSetTable.focus
                 => LET r == Update(m, KeyMsg("c")).m
                    IN  /\ r.showPopup /\ r.popup.IsActive /\ r.creating
                        /\ r.popup.Fields = CreateFields
           /\ \A msg \in Pending("SaveActionMsg") :
                 LET r == Update(m, msg)
                 IN  /\ Len(r.tasks) = 1
                     /\ r.tasks[1].kind = IF OpenedWithC(msg) THEN "createRR" ELSE "updateRR"

\* The popup is an active field form with no sub-editor open
InFieldForm(p) ==
    /\ p.IsActive /\ p.Mode = ""
    /\ ~p.inTextEdit /\ ~p.inTypeSelect /\ ~p.inBoolSelect

\* C17: Update of Ctrl+S with the field form showing returns the popup
\* inactive and showPopup false, with the save message; and from then on no
\* step other than a key press, in particular no return of UpdateRR or AddRR,
\* failed or not, and no message of theirs, shows or activates a popup
C17_SaveClosesPopup ==
    /\ [](status = "running" /\ m.showPopup /\ InFieldForm(m.popup)
            => LET r == Update(m, KeyMsg("ctrl+s"))
               IN  /\ r.status = "running"
                   /\ ~r.m.showPopup /\ ~r.m.popup.IsActive
                   /\ r.msgs = <<[type |-> "SaveActionMsg", Fields |-> m.popup.Fields]>>)
    /\ [][nkeys' = nkeys
             => /\ m'.showPopup => m.showPopup
                /\ m'.popup.IsActive => m.popup.IsActive]_vars

\* Enter, e and Ctrl+S were pressed: the editor was saved and is closed, its
\* save message was handled and its UpdateRR call has returned with an error
\* (a successful return clears the overlay)
C17_ClosedAfterFailedUpdate ==
    /\ status = "running" /\ nkeys = 3
    /\ ~m.showPopup /\ ~m.popup.IsActive
    /\ m.popup.Mode = "" /\ m.popup.Title = <<"Resource record editing">>
    /\ Pending("SaveActionMsg") = {}
    /\ \A t \in BagToSet(tasks) : t.kind # "updateRR"
    /\ m.overlay

\* The keys a popup is tried with: every named key and some characters
TryKeys == NamedKeys \cup {"1", "a", "q", "j", "k"}

\* C18: while a field form shows, its field cursor is within the fields; with
\* no sub-editor open Tab and Down move it one field on and from the last
\* field to field 0, Shift+Tab and Up one field back and from field 0 to the
\* last field; every other key, and every key in a sub-editor, leaves it
C18_FieldCursorCycles ==
    (status = "running" /\ m.showPopup /\ m.popup.IsActive /\ m.popup.Mode = "")
        => LET c == m.popup.Cursor
               n == Len(m.popup.Fields)
           IN  /\ 0 <= c /\ c < n
               /\ \A k \in TryKeys :
                     LET c1 == Update(m, KeyMsg(k)).m.popup.Cursor
                     IN  IF InFieldForm(m.popup) /\ k \in {"tab", "down"}
                         THEN c1 = (IF c = n - 1 THEN 0 ELSE c + 1)
                         ELSE IF InFieldForm(m.popup) /\ k \in {"shift+tab", "up"}
                         THEN c1 = (IF c = 0 THEN n - 1 ELSE c - 1)
                         ELSE c1 = c

\* Enter, e or c, and Up or Shift+Tab were pressed: the cursor went from
\* field 0 to the last field
C18_WrappedToLast ==
    /\ status = "running" /\ m.showPopup /\ InFieldForm(m.popup)
    /\ m.popup.Cursor = Len(m.popup.Fields) - 1
    /\ nkeys = 3

\* The number of sub-editor flags set in popup p
SubEditors(p) ==
    (IF p.inTextEdit THEN 1 ELSE 0) + (IF p.inTypeSelect THEN 1 ELSE 0)
        + (IF p.inBoolSelect THEN 1 ELSE 0)

\* C19: of the popup's sub-editor flags text-edit, type-select and bool-select
\* at most one is set, and one is set only while the popup is active; in the
\* nameserver list only text-edit can be set, in the confirm dialog none; and
\* a step that clears a sub-editor flag leaves the popup active in the mode
\* it had, with no other sub-editor open
C19_PopupModesExclusive ==
    /\ [](m.popup.Mode # "nil"
            => /\ SubEditors(m.popup) <= 1
               /\ SubEditors(m.popup) > 0 => m.popup.IsActive
               /\ m.popup.Mode = "nslist" => ~m.popup.inTypeSelect /\ ~m.popup.inBoolSelect
               /\ m.popup.Mode = "confirm" => SubEditors(m.popup) = 0)
    /\ [][(m.popup.Mode # "nil" /\ SubEditors(m.popup) > 0 /\ status' = "running"
            /\ SubEditors(m'.popup) < SubEditors(m.popup))
             => /\ m'.popup.IsActive /\ m'.showPopup
                /\ m'.popup.Mode = m.popup.Mode
                /\ SubEditors(m'.popup) = 0]_vars

\* The rule of C20 for the field named col of a record of type rrType
PassesRule(col, buf, rrType) ==
    IF col = <<"t", "t", "l">> THEN Len(buf) > 0 /\ \A i \in DOMAIN buf : IsDigit(buf[i])
    ELSE IF col = <<"n", "a", "m", "e">> THEN isHostname(buf)
    ELSE IF col = <<"c", "o", "n", "t", "e", "n", "t">>
    THEN (IF rrType = <<"A">> THEN isIPv4(buf)
          ELSE IF rrType = <<"A", "A", "A", "A">> THEN isIPv6(buf)
          ELSE IF rrType \in {<<"C", "N", "A", "M", "E">>, <<"N", "S">>, <<"M", "X">>}
          THEN isHostname(buf)
          ELSE TRUE)
    ELSE TRUE

OnBoolField ==
    /\ status = "running" /\ m.showPopup /\ m.popup.IsActive /\ m.popup.Mode = ""
    /\ isBoolField(m.popup, m.popup.Cursor)

\* C21: on a boolean field holding "true" or "false", Enter and Enter again
\* leave Fields as they were; in the bool selector the index is 0 or 1, Left
\* and Up select 0, Right and Down select 1, Enter writes "true" for index 0
\* and "false" for index 1 to the current field only, and Esc leaves Fields
C21_BoolSelectCommits ==
    /\ (OnBoolField /\ InFieldForm(m.popup)
         /\ m.popup.Fields[m.popup.Cursor + 1] \in {strTrue, strFalse})
           => LET opened == Update(m, KeyMsg("enter")).m
              IN  /\ opened.popup.inBoolSelect
                  /\ Update(opened, KeyMsg("enter")).m.popup.Fields = m.popup.Fields
    /\ (OnBoolField /\ m.popup.inBoolSelect)
           => LET p == m.popup
                  pop(k) == Update(m, KeyMsg(k)).m.popup
              IN  /\ p.boolIndex \in {0, 1}
                  /\ \A k \in {"left", "up"} :
                        pop(k).boolIndex = 0 /\ pop(k).Fields = p.Fields
                  /\ \A k \in {"right", "down"} :
                        pop(k).boolIndex = 1 /\ pop(k).Fields = p.Fields
                  /\ pop("enter").Fields =
                        [p.Fields EXCEPT ![p.Cursor + 1] =
                            IF p.boolIndex = 0 THEN strTrue ELSE strFalse]
                  /\ ~pop("enter").inBoolSelect
                  /\ pop("esc").Fields = p.Fields /\ ~pop("esc").inBoolSelect
                  /\ pop("esc").IsActive

\* Enter, an arrow key and Enter were pressed on the Proxied field of a record
\* that is not proxied: the field now holds "true"
C21_CommittedTrueOverFalse ==
    /\ OnBoolField /\ InFieldForm(m.popup) /\ nkeys = 3
    /\ m.popup.Fields[m.popup.Cursor + 1] = strTrue
    /\ SelectedRow(m.RRSetTable)[4] = crossMark

\* The nameserver list shows with no nested text editor open
InNSList(p) == p.IsActive /\ p.Mode = "nslist" /\ ~p.inTextEdit

\* The non-empty trimmed lines of a list, in list order
NonEmptyTrimmed(lines) ==
    SelectSeq([i \in DOMAIN lines |-> TrimSpace(lines[i])], LAMBDA v : v # <<>>)

\* Update of Ctrl+S in the nameserver list deactivates the popup and sends one
\* save message with the non-empty trimmed lines in list order
NSSaveSends ==
    (status = "running" /\ m.showPopup /\ InNSList(m.popup))
        => LET r == Update(m, KeyMsg("ctrl+s"))
           IN  /\ r.status = "running" /\ r.tasks = <<>>
               /\ ~r.m.popup.IsActive /\ ~r.m.showPopup
               /\ r.msgs = <<[type |-> "SaveNameServersMsg",
                              Servers |-> NonEmptyTrimmed(m.popup.ListValues)]>>

SameData(mm) ==
    /\ mm.ZonesTable.rows = m.ZonesTable.rows
    /\ mm.rrsetCache = m.rrsetCache
    /\ mm.RRSetTable.rows = m.RRSetTable.rows

\* C23: Update of Esc in the field form or the nameserver list, no sub-editor
\* open, returns the popup inactive with the cancel message; Update of the
\* cancel message by the main model starts no provider call; and neither of
\* them changes the Zones rows, the Records rows or the record cache; nor
\* does any key handled while a popup shows, the commits into the popup's
\* fields among them: after it the Records rows are what a render of the
\* state before it shows
C23_CancelDiscardsEdits ==
    /\ [](status = "running" /\ m.showPopup
            /\ (InFieldForm(m.popup) \/ InNSList(m.popup))
            => LET r == Update(m, KeyMsg("esc"))
               IN  /\ r.status = "running" /\ r.tasks = <<>>
                   /\ r.msgs = <<[type |-> "CancelMsg"]>>
                   /\ ~r.m.popup.IsActive /\ ~r.m.showPopup
                   /\ SameData(r.m))
    /\ [](status = "running" /\ ~m.showPopup
            => \A msg \in Pending("CancelMsg") :
                  LET r == Update(m, msg)
                  IN  /\ r.status = "running" /\ r.tasks = <<>> /\ r.msgs = <<>>
                      /\ ~r.m.popup.IsActive /\ ~r.m.showPopup
                      /\ SameData(r.m))
    /\ [][(m.showPopup /\ nkeys' = nkeys + 1 /\ status' = "running")
             => /\ m'.ZonesTable.rows = m.ZonesTable.rows
                /\ m'.rrsetCache = m.rrsetCache
                /\ m'.RRSetTable.rows = View(m).RRSetTable.rows
                /\ tasks' = tasks]_vars

\* The first line of the first zone's list was emptied and committed, Esc
\* closed the list and the cancel message was handled: the popup still holds
\* the emptied line and the Zones row its two names
C23_CancelledEmptiedLine ==
    /\ status = "running" /\ nkeys = 5 /\ ~m.showPopup
    /\ m.popup.Mode = "nslist" /\ ~m.popup.IsActive
    /\ m.popup.ListValues = << <<>>, <<"m">> >>
    /\ Pending("CancelMsg") = {} /\ Pending("SaveNameServersMsg") = {}
    /\ m.ZonesTable.rows[1] = << <<"x">>, Join(<< <<"n">>, <<"m">> >>) >>

\* C24: after a resize to a width of 1 or more, the two Zones columns and the
\* five Records columns have positive widths, the Zones Name column and the
\* Records Name column are at least 8 wide and the Records Content column at
\* least 10
C24_ColumnWidthsPositive ==
    (status = "running" /\ m.width >= 1)
        => LET z == m.ZonesTable.cols
               r == m.RRSetTable.cols
           IN  /\ Len(z) = 2 /\ Len(r) = 5
               /\ \A i \in DOMAIN z : z[i] > 0
               /\ \A i \in DOMAIN r : r[i] > 0
               /\ z[1] >= 8 /\ r[1] >= 8 /\ r[5] >= 10

\* The terminal is 50 wide: the Records Name column was shrunk below the
\* Zones Name column to leave the Content column its 10
C24_NameShrunkForContent ==
    /\ status = "running" /\ m.width = 50
    /\ m.ZonesTable.cols[1] = 16
    /\ m.RRSetTable.cols = <<10, 6, 6, 8, 10>>

\* The startup fetches in flight for the zone called name
FetchesOf(name) ==
    CopiesIn([kind |-> "updateRRSet", zone |-> name, src |-> "startup"], tasks)

\* C25: when the listing command of Init has run on the zones ListZones
\* returned, the Zones table holds one row per zone, in listing order, each
\* [Name, NameServers joined with ", "], and one record fetch is scheduled for
\* each listed zone (none is, and no row is there, when no zone was listed)
C25_ListingFillsZones ==
    [][\A zones \in ZoneLists :
          InitTaskOf(zones)
          =>  /\ Len(m'.ZonesTable.rows) = Len(zones)
              /\ \A i \in DOMAIN zones :
                    m'.ZonesTable.rows[i] =
                        <<zones[i].Name, Join(zones[i].NameServers)>>
              /\ \A z \in Range(ZoneList) :
                    FetchesOf(z.Name)' =
                        Cardinality({i \in DOMAIN zones : zones[i].Name = z.Name})
              /\ Fetching' = Len(zones)]_vars

\* The listing returned the second zone before the first: two rows in that
\* order, and the two fetches in flight
C25_ListedSecondZoneFirst ==
    /\ status = "running"
    /\ m.ZonesTable.rows =
          << <<ZoneList[2].Name, Join(ZoneList[2].NameServers)>>,
             <<ZoneList[1].Name, Join(ZoneList[1].NameServers)>> >>
    /\ FetchesOf(ZoneList[1].Name) = 1 /\ FetchesOf(ZoneList[2].Name) = 1

\* The names of the zones the listing put in the Zones table
ListedZones == {m.ZonesTable.rows[i][1] : i \in DOMAIN m.ZonesTable.rows}

\* The startup commands have all returned or ended
StartupOver == ~BagIn([kind |-> "init"], tasks) /\ Fetching = 0

\* C26: the startup fetches all succeeding, in whatever order they complete
\* the cache ends up mapping every listed zone to the records fetched for it,
\* and the completion of one zone's fetch leaves the entries of the other
\* zones as they were
C26_FetchesOrderIndependent ==
    /\ [](StartupOver => \A z \in ListedZones : CacheGet(m, z) = RemoteRecords(z))
    /\ [][\A t \in BagToSet(tasks) :
            Fetch(t, TRUE)
            => \A z \in ListedZones \ {t.zone} : CacheGet(m', z) = CacheGet(m, z)]_vars

\* The types of the factories handed to the Register calls
RegisteredTypes == {t.type : t \in {u \in BagToSet(tasks) : u.kind = "Register"}}

\* The GetSupportedTypes call has returned
TypesReturned ==
    \E t \in BagToSet(tasks) : t.kind = "GetSupportedTypes" /\ t.pc = "returned"

\* C27: goroutines registering factories of distinct types in one registry
\* all return, in every interleaving, and GetSupportedTypes called afterwards
\* returns exactly the registered types, each once
C27_ConcurrentRegister ==
    /\ <>(Registering = {} /\ TypesReturned)
    /\ [](\A t \in BagToSet(tasks) :
            (t.kind = "GetSupportedTypes" /\ t.pc = "returned")
            => /\ Registering = {}
               /\ Len(t.types) = Cardinality(RegisteredTypes)
               /\ Range(t.types) = RegisteredTypes)

\* Four factories were registered and GetSupportedTypes returned them with
\* "type4" first
C27_FourTypesReturned ==
    \E t \in BagToSet(tasks) :
       /\ t.kind = "GetSupportedTypes" /\ t.pc = "returned"
       /\ Len(t.types) = 4 /\ t.types[1] = FactoryType(4)

\* C28: with the nested text editor of the nameserver list open, Update of
\* Enter takes the trimmed buffer as the value: a value that is not empty and
\* no hostname keeps the editor open, sets the error text and leaves the list;
\* an empty value while the list has more than 2 lines removes the current
\* line; any other value is written to the current line; and after each
\* accepted Enter the list has at least 2 lines and the editor is closed
C28_NSTextCommit ==
    (status = "running" /\ m.showPopup /\ m.popup.IsActive /\ m.popup.Mode = "nslist"
     /\ m.popup.inTextEdit)
        => LET p == m.popup
               value == TrimSpace(p.textBuf)
               lines == p.ListValues
               c == p.ListCursor + 1
               re == Update(m, KeyMsg("enter")).m.popup
           IN  IF value # <<>> /\ ~isHostname(value)
               THEN /\ re.inTextEdit /\ re.textErr # "" /\ re.ListValues = lines
                    /\ re.textBuf = p.textBuf
               ELSE /\ re.ListValues =
                         (IF value = <<>> /\ Len(lines) > 2
                          THEN SubSeq(lines, 1, c - 1) \o SubSeq(lines, c + 1, Len(lines))
                          ELSE [lines EXCEPT ![c] = value])
                    /\ Len(re.ListValues) >= 2
                    /\ ~re.inTextEdit /\ re.IsActive

\* The first of the five lines of the second zone was emptied and Enter
\* pressed: four lines are left, the editor is closed
C28_EmptiedLineDeleted ==
    /\ status = "running" /\ m.showPopup /\ InNSList(m.popup)
    /\ m.popup.ListValues = << <<"n">>, <<"n">>, <<"n">>, <<"n">> >>
    /\ m.popup.ListCursor = 0

\* The table that has the focus
FocusedTable == IF m.RRSetTable.focus THEN "rrset" ELSE "zones"

\* C29: in every state where Update would handle a navigation key itself (no
\* popup is showing) or where a field-form save waits to be handled,
\* m.current is set and refers to the focused table, from program start on
C29_CurrentIsFocusedTable ==
    (status = "running" /\ (~m.showPopup \/ Pending("SaveActionMsg") # {}))
        => m.current = FocusedTable

\* The zones whose cache entry holds a record the provider created
ZonesWithCreated ==
    {z \in DOMAIN m.rrsetCache :
        \E i \in DOMAIN m.rrsetCache[z] : m.rrsetCache[z][i].ID = NewRecordID}

\* C30: every create being submitted with the first zone selected, a created
\* record is only ever appended to the cache entry of the first zone, whatever
\* keys are handled before the completion message
C30_CreatedInSubmittedZone == ZonesWithCreated \subseteq {ZoneList[1].Name}

\* C31: the return of the UpdateRR call of a save neither deactivates nor
\* hides a popup that is showing (the popup of that save was closed by its
\* own Ctrl+S, so a popup that shows then was opened after it)
C31_UpdateDoneKeepsLaterPopup ==
    [][(UpdateRRDone \/ UpdateRRHide) => (m.showPopup => (m'.showPopup /\ m'.popup.IsActive))]_vars

\* C32: when the save message of a nameserver list is handled, the values
\* joined with ", " are written to the Zones row of the zone whose list was
\* opened (the zone the closed popup's title names), and every other row is
\* left as it was, whatever keys were handled since the popup closed
C32_SaveReachesOpenedZone ==
    (status = "running" /\ ~m.showPopup /\ m.popup.Mode = "nslist")
        => \A msg \in Pending("SaveNameServersMsg") :
              LET rows == m.ZonesTable.rows
                  after == Update(m, msg).m.ZonesTable.rows
              IN  /\ Len(after) = Len(rows)
                  /\ \A i \in DOMAIN rows :
                        after[i] = IF m.popup.Title = NSTitle(rows[i][1])
                                   THEN <<rows[i][1], Join(msg.Servers)>>
                                   ELSE rows[i]

\* C33: Update of the save message of an existing record's editor changes, in
\* the cache, at most the record of the selected zone that the Records cursor
\* is on (the one the editor was opened on), also when another record of the
\* zone has the same name, and changes nothing when the saved fields are
\* those the record is shown with
C33_SaveChangesOnlyOpenedRecord ==
    \A msg \in Pending("SaveActionMsg") :
       (PendingEditSave(msg) /\ m.RRSetTable.focus /\ Len(SelectedRow(m.ZonesTable)) > 0)
       => LET old == m.rrsetCache
              new == Update(m, msg).m.rrsetCache
              zone == SelectedRow(m.ZonesTable)[1]
              c == m.RRSetTable.cursor + 1
          IN  /\ DOMAIN new = DOMAIN old
              /\ \A z \in DOMAIN old :
                    /\ Len(new[z]) = Len(old[z])
                    /\ \A i \in DOMAIN old[z] :
                          (z # zone \/ i # c) => new[z][i] = old[z][i]
              /\ (zone \in DOMAIN old /\ c \in DOMAIN old[zone]
                  /\ msg.Fields = RowFields(RecordRow(old[zone][c])))
                    => new = old

\* C34: the user editing the first record of the first zone only, every
\* UpdateRR call is handed a record with the ID of that record, whatever the
\* saved fields are, and never one with an empty ID
C34_UpdateCarriesRecordID ==
    \A t \in BagToSet(tasks) :
       (t.kind = "updateRR" /\ t.pc = "call")
       => t.target.ID = RemoteRecords(ZoneList[1].Name)[1].ID

\* C35: while a record fetch is in flight, or its completion message waits to
\* be handled, the loading flag is true
C35_LoadingWhileFetching ==
    (status = "running" /\ (Fetching >= 1 \/ BagIn(dataLoadedMsg, msgs)))
        => m.loading

\* C36: whatever ListZones returns, with every provider call returning and no
\* popup opened, the program does not crash and loading eventually becomes
\* false
C36_StartupFinishesLoading ==
    /\ [](status # "crashed")
    /\ <>(~m.loading)

\* C37: the fields of every save message of a field form satisfy the field
\* rules: Name is a hostname, TTL is not empty and all digits, and Content is
\* valid for the Type of the same message
C37_SavedFieldsAreValid ==
    \A msg \in Pending("SaveActionMsg") :
       LET rrType == ToUpper(msg.Fields[3])
       IN  /\ PassesRule(<<"n", "a", "m", "e">>, msg.Fields[1], rrType)
           /\ PassesRule(<<"t", "t", "l">>, msg.Fields[2], rrType)
           /\ PassesRule(<<"c", "o", "n", "t", "e", "n", "t">>, msg.Fields[5], rrType)

\* C38: while showPopup is set the model holds a popup and the popup is
\* active, and a step that leaves the popup inactive leaves showPopup unset
C38_ShownPopupIsActive ==
    /\ [](m.showPopup => (m.popup # NilPopup /\ m.popup.IsActive))
    /\ [][(m.popup.IsActive /\ ~m'.popup.IsActive) => ~m'.showPopup]_vars

\* C39: the line cursor of a nameserver list is at least 0 and less than the
\* number of lines, whatever Up, Down, Ctrl+D and deleting commits came
\* before; Up on line 0 and Down on the last of 4 lines leave the cursor and
\* the lines as they were
C39_ListCursorInRange ==
    /\ [](m.popup.Mode = "nslist"
            => (0 <= m.popup.ListCursor /\ m.popup.ListCursor < Len(m.popup.ListValues)))
    /\ [][(m.showPopup /\ InNSList(m.popup) /\ m.popup.ListCursor = 0
            /\ KeyStep("up", MaxListKeys))
              => (m'.popup.ListCursor = 0 /\ m'.popup.ListValues = m.popup.ListValues)]_vars
    /\ [][(m.showPopup /\ InNSList(m.popup) /\ Len(m.popup.ListValues) = 4
            /\ m.popup.ListCursor = 3 /\ KeyStep("down", MaxListKeys))
              => (m'.popup.ListCursor = 3 /\ m'.popup.ListValues = m.popup.ListValues)]_vars

\* A line of the list of five equal lines was deleted, and the cursor is on
\* the last of the four lines left
C39_CursorOnLastAfterDelete ==
    /\ status = "running" /\ m.showPopup /\ InNSList(m.popup)
    /\ m.popup.ListValues = << <<"n">>, <<"n">>, <<"n">>, <<"n">> >>
    /\ m.popup.ListCursor = 3

=============================================================================
